---- MODULE Spec2Model ----
(***************************************************************************)
(* Enigma machine simulator: three rotors, a reflector and a               *)
(* plugboard; stepRotors with the double-stepping anomaly, the per-letter  *)
(* signal path encryptChar and the text entry point process.               *)
(* Two machines are built from one configuration, as the tests do.         *)
(*   Spec        each machine processes one text (process)                 *)
(*   SpecWrap    the same, from positions where the right rotor wraps      *)
(*   SpecKeys    the machines are typed on letter by letter (encryptChar)  *)
(*   SpecOneKey  one machine is typed on with one letter                   *)
(*   SpecPlug    plugboardSwap on its own                                  *)
(*   SpecBuild   the constructor is given valid and invalid configurations *)
(*   SpecNoPlug, SpecNoRings  two machines that differ in one setting      *)
(*   SpecRotor   one rotor on its own                                      *)
(*   SpecPeriod  keys are pressed from every position triple               *)
(* calls[m] records every call made on machine m: the operation, its input *)
(* and output, the rotor positions before the call and after each          *)
(* character it emitted.                                                   *)
(*                                                                         *)
(* Sea Battle game: Ship, Board, AiPlayer and SeaBattleGame.               *)
(*   SpecBoard   ships are placed on one of the two boards and it is shot  *)
(*   SpecShip    ships are placed on a board and hit one by one            *)
(*   SpecAi      the AI player under makeMove, processResult and reset     *)
(*   SpecAiSetup the same, from a player set up by hand as the tests do    *)
(*   SpecLoops   the loops of placeShipsRandomly and getHuntMove by passes *)
(*   SpecGame    startGame from initialize to endGame                      *)
(* last records the last call: the operation, its arguments, what it       *)
(* returned and the state before it; returned is the set of moves makeMove *)
(* has returned since construction or reset.                               *)
(*                                                                         *)
(* Validation library: BaseValidator, StringValidator, NumberValidator and *)
(* ObjectValidator.                                                        *)
(*   SpecValidator  an ObjectValidator is configured and validates values  *)
(*   SpecConstraints  a validator is given constraints and validates       *)
(* validator is the validator under test; last records its last call.      *)
(***************************************************************************)
EXTENDS Integers, Sequences, FiniteSets, TLC

VARIABLES config, enigma, calls, gameConfig, game, pc, returned, last,
          validator

vars == <<config, enigma, calls, gameConfig, game, pc, returned, last,
         validator>>

\* the variables of the Enigma machines, those of the Sea Battle game and
\* the validator; each specification uses one group and leaves the others
\* idle, but for last, which the validator uses too
enigmaVars == <<config, enigma, calls>>

seaVars == <<gameConfig, game, pc, returned, last>>

validatorVars == <<validator>>

NoSeaBattle ==
  /\ gameConfig = <<>>
  /\ game = <<>>
  /\ pc = "none"
  /\ returned = {}
  /\ last = <<>>

NoValidator == validator = <<>>

NoEnigmaMachines ==
  /\ config = <<>>
  /\ enigma = <<>>
  /\ calls = <<>>

(***************************************************************************)
(* Bounds of the model.                                                    *)
(***************************************************************************)
\* longest text handed to process
MaxLen == 2
\* number of encryptChar calls made on the two machines together
MaxKeys == 4
\* number of cells of a board that are shot at
MaxShots == 3
\* number of properties of an object handed to a validator
MaxProps == 2
\* longest plugboard pair list handed to plugboardSwap on its own
MaxPairs == 2
\* keypresses followed from each of the 26 x 26 x 26 start positions
MaxPresses == 2

(***************************************************************************)
(* Characters. A character is a one-character string, a text a sequence    *)
(* of characters.                                                          *)
(***************************************************************************)
alphabet ==
  <<"A","B","C","D","E","F","G","H","I","J","K","L","M",
    "N","O","P","Q","R","S","T","U","V","W","X","Y","Z">>

lowercase ==
  <<"a","b","c","d","e","f","g","h","i","j","k","l","m",
    "n","o","p","q","r","s","t","u","v","w","x","y","z">>

Letters == {alphabet[i] : i \in 1..26}

LowerLetters == {lowercase[i] : i \in 1..26}

\* alphabet.indexOf(c), 0-based, for a letter c
IndexTable == [c \in Letters |-> (CHOOSE i \in 1..26 : alphabet[i] = c) - 1]

indexOf(c) == IndexTable[c]

\* alphabet[i], 0-based
charAt(i) == alphabet[i + 1]

\* mod(n, m): the non-negative remainder
mod(n, m) == ((n % m) + m) % m

\* String.prototype.toUpperCase on one character: a-z map to A-Z, the sharp s
\* maps to the two characters SS, every other modelled character is kept
upperChar(c) ==
  IF c \in LowerLetters
    THEN <<alphabet[CHOOSE i \in 1..26 : lowercase[i] = c]>>
    ELSE IF c = "ß" THEN <<"S", "S">> ELSE <<c>>

RECURSIVE toUpperCase(_)
toUpperCase(text) ==
  IF text = <<>> THEN <<>>
  ELSE upperChar(Head(text)) \o toUpperCase(Tail(text))

(***************************************************************************)
(* Rotor catalog and reflector.                                            *)
(***************************************************************************)
ROTORS ==
  <<[wiring |-> <<"E","K","M","F","L","G","D","Q","V","Z","N","T","O",
                  "W","Y","H","X","U","S","P","A","I","B","R","C","J">>,
     notch |-> "Q"],
    [wiring |-> <<"A","J","D","K","S","I","R","U","X","B","L","H","W",
                  "T","M","C","Q","G","Z","N","P","Y","F","V","O","E">>,
     notch |-> "E"],
    [wiring |-> <<"B","D","F","H","J","L","C","P","R","T","X","V","Z",
                  "N","Y","E","I","W","G","A","K","M","U","S","Q","O">>,
     notch |-> "V"]>>

REFLECTOR ==
  <<"Y","R","U","H","Q","S","L","D","P","X","N","G","O",
    "K","M","I","E","B","F","Z","C","W","V","J","A","T">>

\* a reflector that sends every letter back as it came
reflectStraight(c) == c

reflect(c) == REFLECTOR[indexOf(c) + 1]

(***************************************************************************)
(* Plugboard.                                                              *)
(***************************************************************************)
\* a plugboard that swaps from the first member of a pair only
RECURSIVE plugboardSwapOneWay(_, _)
plugboardSwapOneWay(c, pairs) ==
  IF pairs = <<>> THEN c
  ELSE IF c = Head(pairs)[1] THEN Head(pairs)[2]
  ELSE plugboardSwapOneWay(c, Tail(pairs))

\* a plugboard that looks at the first pair only
plugboardSwapFirstPair(c, pairs) ==
  IF pairs = <<>> THEN c
  ELSE IF c = Head(pairs)[1] THEN Head(pairs)[2]
  ELSE IF c = Head(pairs)[2] THEN Head(pairs)[1]
  ELSE c

\* scans the pair list in order and answers at the first pair holding c
RECURSIVE plugboardSwap(_, _)
plugboardSwap(c, pairs) ==
  IF pairs = <<>> THEN c
  ELSE IF c = Head(pairs)[1] THEN Head(pairs)[2]
  ELSE IF c = Head(pairs)[2] THEN Head(pairs)[1]
  ELSE plugboardSwap(c, Tail(pairs))

(***************************************************************************)
(* Rotor.                                                                  *)
(***************************************************************************)
\* a rotor that drops its ring setting
RotorNoRing(wiring, notch, ringSetting, position) ==
  [wiring |-> wiring, notch |-> notch, ringSetting |-> 0, position |-> position]

Rotor(wiring, notch, ringSetting, position) ==
  [wiring |-> wiring, notch |-> notch,
   ringSetting |-> ringSetting, position |-> position]

\* a step that turns the ring with the rotor
stepTurnsRing(r) ==
  [r EXCEPT !.position = mod(r.position + 1, 26),
            !.ringSetting = mod(r.ringSetting + 1, 26)]

\* a step that does not wrap
stepNoWrap(r) == [r EXCEPT !.position = r.position + 1]

step(r) == [r EXCEPT !.position = mod(r.position + 1, 26)]

\* a notch that turns with the ring
atNotchWithRing(r) == charAt(mod(r.position - r.ringSetting, 26)) = r.notch

atNotch(r) == charAt(r.position) = r.notch

forward(r, c) ==
  LET shiftedIndex == mod(indexOf(c) + r.position - r.ringSetting, 26)
      w == r.wiring[shiftedIndex + 1]
  IN  charAt(mod(indexOf(w) - r.position + r.ringSetting, 26))

\* a backward pass that substitutes through the wiring itself instead of its
\* inverse
backwardThroughWiring(r, c) ==
  LET shiftedIndex == mod(indexOf(c) + r.position - r.ringSetting, 26)
      w == r.wiring[shiftedIndex + 1]
  IN  charAt(mod(indexOf(w) - r.position + r.ringSetting, 26))

backward(r, c) ==
  LET shifted == charAt(mod(indexOf(c) + r.position - r.ringSetting, 26))
      idx == (CHOOSE i \in 1..26 : r.wiring[i] = shifted) - 1
  IN  charAt(mod(idx - r.position + r.ringSetting, 26))

(***************************************************************************)
(* Enigma machine. rotors[1], rotors[2], rotors[3] are the left, middle    *)
(* and right rotor (rotors[0..2] of the source).                           *)
(***************************************************************************)
Enigma(rotorIDs, rotorPositions, ringSettings, plugboardPairs) ==
  LET newRotor(i) ==
        Rotor(ROTORS[rotorIDs[i] + 1].wiring, ROTORS[rotorIDs[i] + 1].notch,
              ringSettings[i], rotorPositions[i])
  IN  [rotors |-> <<newRotor(1), newRotor(2), newRotor(3)>>,
       plugboardPairs |-> plugboardPairs]

positions(e) == <<e.rotors[1].position, e.rotors[2].position, e.rotors[3].position>>

\* stepping in which the middle rotor turns with the right rotor on every
\* keypress
stepRotorsMiddleAlways(e) ==
  LET middleAtNotch == atNotch(e.rotors[2])
      left == IF middleAtNotch THEN step(e.rotors[1]) ELSE e.rotors[1]
      middle == step(e.rotors[2])
      right == step(e.rotors[3])
  IN  [e EXCEPT !.rotors = <<left, middle, right>>]

\* stepping without the double step: the middle rotor steps only when the
\* right rotor is at its notch
stepRotorsNoDoubleStep(e) ==
  LET middleAtNotch == atNotch(e.rotors[2])
      rightAtNotch == atNotch(e.rotors[3])
      left == IF middleAtNotch THEN step(e.rotors[1]) ELSE e.rotors[1]
      middle == IF rightAtNotch THEN step(e.rotors[2]) ELSE e.rotors[2]
      right == step(e.rotors[3])
  IN  [e EXCEPT !.rotors = <<left, middle, right>>]

stepRotors(e) ==
  LET middleAtNotch == atNotch(e.rotors[2])
      rightAtNotch == atNotch(e.rotors[3])
      left == IF middleAtNotch THEN step(e.rotors[1]) ELSE e.rotors[1]
      middle == IF rightAtNotch \/ middleAtNotch
                  THEN step(e.rotors[2]) ELSE e.rotors[2]
      right == step(e.rotors[3])
  IN  [e EXCEPT !.rotors = <<left, middle, right>>]

\* the signal path with the plugboard applied before the rotors only
signalPathOnePlugboard(e, c) ==
  LET c1 == plugboardSwap(c, e.plugboardPairs)
      c2 == forward(e.rotors[3], c1)
      c3 == forward(e.rotors[2], c2)
      c4 == forward(e.rotors[1], c3)
      c5 == reflect(c4)
      c6 == backward(e.rotors[1], c5)
      c7 == backward(e.rotors[2], c6)
  IN  backward(e.rotors[3], c7)

\* the signal path with the backward pass through the right, middle and left
\* rotor
signalPathBackwardOrder(e, c) ==
  LET c1 == plugboardSwap(c, e.plugboardPairs)
      c2 == forward(e.rotors[3], c1)
      c3 == forward(e.rotors[2], c2)
      c4 == forward(e.rotors[1], c3)
      c5 == reflect(c4)
      c6 == backward(e.rotors[3], c5)
      c7 == backward(e.rotors[2], c6)
      c8 == backward(e.rotors[1], c7)
  IN  plugboardSwap(c8, e.plugboardPairs)

\* the signal path at the rotor positions e is in: plugboard, forward through
\* the right, middle and left rotor, reflector, backward through the left,
\* middle and right rotor, plugboard
signalPath(e, c) ==
  LET c1 == plugboardSwap(c, e.plugboardPairs)
      c2 == forward(e.rotors[3], c1)
      c3 == forward(e.rotors[2], c2)
      c4 == forward(e.rotors[1], c3)
      c5 == reflect(c4)
      c6 == backward(e.rotors[1], c5)
      c7 == backward(e.rotors[2], c6)
      c8 == backward(e.rotors[3], c7)
  IN  plugboardSwap(c8, e.plugboardPairs)

\* encryptChar that encrypts at the positions it finds and steps afterwards
encryptCharBeforeStep(e, c) ==
  [enigma |-> stepRotors(e), out |-> signalPath(e, c)]

\* encryptChar(c): the machine after the call and the returned letter
encryptChar(e, c) ==
  LET stepped == stepRotors(e)
  IN  [enigma |-> stepped, out |-> signalPath(stepped, c)]

\* the loop of process over the characters of the uppercased text: the machine
\* at the end, the characters emitted and the rotor positions after each one
RECURSIVE processChars(_, _, _, _)
processChars(e, chars, out, trace) ==
  IF chars = <<>> THEN [enigma |-> e, out |-> out, trace |-> trace]
  ELSE IF Head(chars) \in Letters
    THEN LET r == encryptChar(e, Head(chars))
         IN  processChars(r.enigma, Tail(chars), Append(out, r.out),
                          Append(trace, positions(r.enigma)))
    ELSE processChars(e, Tail(chars), Append(out, Head(chars)),
                      Append(trace, positions(e)))

\* process without the uppercasing
processAsTyped(e, text) == processChars(e, text, <<>>, <<>>)

process(e, text) == processChars(e, toUpperCase(text), <<>>, <<>>)

(***************************************************************************)
(* Configurations and inputs.                                              *)
(***************************************************************************)
RotorIDChoices == {<<0, 1, 2>>, <<2, 0, 1>>}

RingChoices == {<<0, 0, 0>>, <<2, 4, 6>>}

PlugboardChoices ==
  {<<>>,
   <<<<"A", "B">>>>,
   <<<<"A", "Z">>, <<"B", "Y">>, <<"C", "X">>>>}

\* initial positions of the machines that process texts
PositionChoices == {<<0, 0, 0>>, <<5, 10, 15>>, <<25, 3, 21>>}

\* initial positions of the machines that are typed on: with rotors 0,1,2 the
\* middle notch is at 4 and the right notch at 21, with rotors 2,0,1 they are
\* at 16 and at 4
KeyPositionChoices ==
  {<<0, 0, 0>>, <<0, 4, 0>>, <<25, 3, 21>>, <<25, 4, 21>>,
   <<25, 15, 4>>, <<25, 16, 4>>, <<0, 16, 25>>, <<5, 10, 15>>}

Configs ==
  [rotorIDs : RotorIDChoices, rotorPositions : PositionChoices,
   ringSettings : RingChoices, plugboardPairs : PlugboardChoices]

KeyConfigs ==
  [rotorIDs : RotorIDChoices, rotorPositions : KeyPositionChoices,
   ringSettings : RingChoices, plugboardPairs : PlugboardChoices]

\* the characters texts are made of: an uppercase letter, a lowercase letter,
\* a digit and a lowercase letter whose uppercase form is two characters
Chars == {"A", "h", "1", "ß"}

TextsOfLen(n) == [1..n -> Chars]

Texts == UNION {TextsOfLen(n) : n \in 0..MaxLen}

\* the letters typed with encryptChar
KeyLetters == {"A", "Q"}

Machines == {1, 2}

other(m) == 3 - m

TotalCalls == Len(calls[1]) + Len(calls[2])

newEnigma(c) ==
  Enigma(c.rotorIDs, c.rotorPositions, c.ringSettings, c.plugboardPairs)

(***************************************************************************)
(* Specifications.                                                         *)
(***************************************************************************)
Init ==
  /\ config \in Configs
  /\ enigma = [m \in Machines |-> newEnigma(config)]
  /\ calls = [m \in Machines |-> <<>>]
  /\ NoSeaBattle
  /\ NoValidator

InitKeys ==
  /\ config \in KeyConfigs
  /\ enigma = [m \in Machines |-> newEnigma(config)]
  /\ calls = [m \in Machines |-> <<>>]
  /\ NoSeaBattle
  /\ NoValidator

\* enigma[m].process(text)
Process(m, text) ==
  \E r \in {process(enigma[m], text)} :
      /\ enigma' = [enigma EXCEPT ![m] = r.enigma]
      /\ calls' = [calls EXCEPT ![m] =
                   Append(@, [op |-> "process", input |-> text,
                              output |-> r.out,
                              before |-> positions(enigma[m]),
                              trace |-> r.trace])]
      /\ UNCHANGED <<config, seaVars, validatorVars>>

\* encryptChar on machines that share their rotors
EncryptCharSharedRotors(m, c) ==
  \E r \in {encryptChar(enigma[m], c)} :
      /\ enigma' = [k \in Machines |-> r.enigma]
      /\ calls' = [calls EXCEPT ![m] =
                   Append(@, [op |-> "encryptChar", input |-> <<c>>,
                              output |-> <<r.out>>,
                              before |-> positions(enigma[m]),
                              trace |-> <<positions(r.enigma)>>])]
      /\ UNCHANGED <<config, seaVars, validatorVars>>

\* encryptChar on machines whose stepping is coupled: a keypress on one
\* machine also steps the rotors of the other
EncryptCharStepsOther(m, c) ==
  \E r \in {encryptChar(enigma[m], c)} :
      /\ enigma' = [k \in Machines |->
                      IF k = m THEN r.enigma ELSE stepRotors(enigma[k])]
      /\ calls' = [calls EXCEPT ![m] =
                   Append(@, [op |-> "encryptChar", input |-> <<c>>,
                              output |-> <<r.out>>,
                              before |-> positions(enigma[m]),
                              trace |-> <<positions(r.enigma)>>])]
      /\ UNCHANGED <<config, seaVars, validatorVars>>

\* enigma[m].encryptChar(c)
EncryptChar(m, c) ==
  \E r \in {encryptChar(enigma[m], c)} :
      /\ enigma' = [enigma EXCEPT ![m] = r.enigma]
      /\ calls' = [calls EXCEPT ![m] =
                   Append(@, [op |-> "encryptChar", input |-> <<c>>,
                              output |-> <<r.out>>,
                              before |-> positions(enigma[m]),
                              trace |-> <<positions(r.enigma)>>])]
      /\ UNCHANGED <<config, seaVars, validatorVars>>

\* a freshly built machine is given a text
ProcessText(m) ==
  /\ calls[m] = <<>>
  /\ \E text \in Texts : Process(m, text)

\* a freshly built machine is given what the other machine returned
ProcessOutput(m) ==
  /\ calls[m] = <<>>
  /\ calls[other(m)] # <<>>
  /\ Process(m, calls[other(m)][1].output)

\* a freshly built machine is given the uppercased text of the other machine
ProcessUpper(m) ==
  /\ calls[m] = <<>>
  /\ calls[other(m)] # <<>>
  /\ Process(m, toUpperCase(calls[other(m)][1].input))

Next ==
  \/ \E m \in Machines : ProcessText(m)
  \/ \E m \in Machines : ProcessOutput(m)
  \/ \E m \in Machines : ProcessUpper(m)

Spec == Init /\ [][Next]_vars

\* machines whose right rotor is about to pass from 25 to 0 process texts
WrapPositionChoices == {<<7, 7, 25>>, <<0, 16, 24>>}

InitWrap ==
  /\ config \in [rotorIDs : RotorIDChoices, rotorPositions : WrapPositionChoices,
                  ringSettings : RingChoices, plugboardPairs : PlugboardChoices]
  /\ enigma = [m \in Machines |-> newEnigma(config)]
  /\ calls = [m \in Machines |-> <<>>]
  /\ NoSeaBattle
  /\ NoValidator

SpecWrap == InitWrap /\ [][Next]_vars

\* a letter is typed on one of the machines
NextKeys ==
  /\ TotalCalls < MaxKeys
  /\ \E m \in Machines : \E c \in KeyLetters : EncryptChar(m, c)

SpecKeys == InitKeys /\ [][NextKeys]_vars

\* the letter A is typed on machine 1
NextOneKey ==
  /\ TotalCalls < MaxKeys
  /\ EncryptChar(1, "A")

SpecOneKey == InitKeys /\ [][NextOneKey]_vars

\* plugboardSwap on its own: the letters and the pair lists it is given
PlugLetters == {"A", "B", "C", "D", "E", "F"}

PlugPairs == {p \in PlugLetters \X PlugLetters : p[1] # p[2]}

\* no letter in more than one pair (and none paired with itself)
ValidPairs(pairs) ==
  \A i, j \in 1..Len(pairs) :
    i # j => {pairs[i][1], pairs[i][2]} \cap {pairs[j][1], pairs[j][2]} = {}

PairLists ==
  {pairs \in UNION {[1..n -> PlugPairs] : n \in 0..MaxPairs} : ValidPairs(pairs)}

InitPlug ==
  /\ config \in [rotorIDs : {<<0, 1, 2>>}, rotorPositions : {<<0, 0, 0>>},
                 ringSettings : {<<0, 0, 0>>}, plugboardPairs : PairLists]
  /\ enigma = [m \in Machines |-> newEnigma(config)]
  /\ calls = [m \in Machines |-> <<>>]
  /\ NoSeaBattle
  /\ NoValidator

\* plugboardSwap(c, pairs) with the pairs of machine 1
PlugboardSwap(c) ==
  /\ calls' = [calls EXCEPT ![1] =
               Append(@, [op |-> "plugboardSwap", input |-> <<c>>,
                          output |-> <<plugboardSwap(c, enigma[1].plugboardPairs)>>,
                          before |-> positions(enigma[1]),
                          trace |-> <<>>])]
  /\ UNCHANGED <<config, enigma, seaVars, validatorVars>>

\* a letter is swapped
SwapLetter ==
  /\ calls[1] = <<>>
  /\ \E c \in PlugLetters \cup {"Z"} : PlugboardSwap(c)

\* the letter returned is swapped again
SwapAgain ==
  /\ Len(calls[1]) = 1
  /\ PlugboardSwap(calls[1][1].output[1])

NextPlug == SwapLetter \/ SwapAgain

SpecPlug == InitPlug /\ [][NextPlug]_vars

(***************************************************************************)
(* Construction. The constructor validates the whole configuration and     *)
(* raises a ConfigurationError before any rotor is built.                  *)
(***************************************************************************)
\* the value of a variable that holds no machine
NoEnigma == [rotors |-> <<>>, plugboardPairs |-> <<>>]

validConfiguration(c) ==
  /\ \A i \in 1..3 : c.rotorIDs[i] \in 0..(Len(ROTORS) - 1)
  /\ \A i \in 1..3 : c.rotorPositions[i] \in 0..25
  /\ \A i \in 1..3 : c.ringSettings[i] \in 0..25
  /\ ValidPairs(c.plugboardPairs)
  /\ \A i \in 1..Len(c.plugboardPairs) :
       c.plugboardPairs[i][1] # c.plugboardPairs[i][2]

\* a constructor that validates the rotors and not the plugboard
constructNoPlugboardCheck(c) ==
  IF /\ \A i \in 1..3 : c.rotorIDs[i] \in 0..(Len(ROTORS) - 1)
     /\ \A i \in 1..3 : c.rotorPositions[i] \in 0..25
     /\ \A i \in 1..3 : c.ringSettings[i] \in 0..25
    THEN [error |-> "none", enigma |-> newEnigma(c)]
    ELSE [error |-> "ConfigurationError", enigma |-> NoEnigma]

\* new Enigma(...): the error raised ("none" when there is none) and the
\* machine built
construct(c) ==
  IF validConfiguration(c)
    THEN [error |-> "none", enigma |-> newEnigma(c)]
    ELSE [error |-> "ConfigurationError", enigma |-> NoEnigma]

\* the configurations handed to the constructor, valid and invalid
BuildConfigs ==
  [rotorIDs : {<<0, 1, 2>>, <<0, 1, 3>>, <<-1, 1, 2>>},
   rotorPositions : {<<0, 0, 0>>, <<0, 26, 0>>, <<0, 0, -1>>},
   ringSettings : {<<0, 0, 0>>, <<26, 0, 0>>},
   plugboardPairs : {<<>>,
                     <<<<"A", "B">>>>,
                     <<<<"A", "B">>, <<"B", "C">>>>,
                     <<<<"A", "A">>>>,
                     <<<<"A", "B">>, <<"C", "A">>>>}]

InitBuild ==
  /\ config \in BuildConfigs
  /\ enigma = [m \in Machines |-> NoEnigma]
  /\ calls = [m \in Machines |-> <<>>]
  /\ NoSeaBattle
  /\ NoValidator

\* enigma[m] = new Enigma(config...)
Construct(m) ==
  /\ calls[m] = <<>>
  /\ \E r \in {construct(config)} :
       /\ enigma' = [enigma EXCEPT ![m] = r.enigma]
       /\ calls' = [calls EXCEPT ![m] =
                    Append(@, [op |-> "new Enigma", input |-> <<>>,
                               output |-> <<r.error>>,
                               before |-> <<>>, trace |-> <<>>])]
       /\ UNCHANGED <<config, seaVars, validatorVars>>

\* the machine that was built processes a text
ProcessBuilt(m) ==
  /\ Len(calls[m]) = 1
  /\ enigma[m] # NoEnigma
  /\ Process(m, <<"A">>)

NextBuild ==
  \/ \E m \in Machines : Construct(m)
  \/ \E m \in Machines : ProcessBuilt(m)

SpecBuild == InitBuild /\ [][NextBuild]_vars

(***************************************************************************)
(* Two machines that differ in one setting: machine 1 is built from config *)
(* and machine 2 from config without its plugboard pairs (SpecNoPlug) or   *)
(* with the ring settings 0,0,0 (SpecNoRings).                             *)
(***************************************************************************)
PlugEffectConfigs ==
  [rotorIDs : RotorIDChoices, rotorPositions : KeyPositionChoices,
   ringSettings : RingChoices, plugboardPairs : {<<<<"A", "B">>>>}]

InitNoPlug ==
  /\ config \in PlugEffectConfigs
  /\ enigma = [m \in Machines |->
                 IF m = 1 THEN newEnigma(config)
                 ELSE newEnigma([config EXCEPT !.plugboardPairs = <<>>])]
  /\ calls = [m \in Machines |-> <<>>]
  /\ NoSeaBattle
  /\ NoValidator

\* a freshly built machine is given the text A
ProcessA(m) ==
  /\ calls[m] = <<>>
  /\ Process(m, <<"A">>)

NextNoPlug == \E m \in Machines : ProcessA(m)

SpecNoPlug == InitNoPlug /\ [][NextNoPlug]_vars

RingEffectConfigs ==
  [rotorIDs : RotorIDChoices, rotorPositions : PositionChoices,
   ringSettings : {<<5, 10, 15>>, <<2, 4, 6>>},
   plugboardPairs : PlugboardChoices]

InitNoRings ==
  /\ config \in RingEffectConfigs
  /\ enigma = [m \in Machines |->
                 IF m = 1 THEN newEnigma(config)
                 ELSE newEnigma([config EXCEPT !.ringSettings = <<0, 0, 0>>])]
  /\ calls = [m \in Machines |-> <<>>]
  /\ NoSeaBattle
  /\ NoValidator

\* a freshly built machine is given the text HELLO
ProcessHello(m) ==
  /\ calls[m] = <<>>
  /\ Process(m, <<"H", "E", "L", "L", "O">>)

NextNoRings == \E m \in Machines : ProcessHello(m)

SpecNoRings == InitNoRings /\ [][NextNoRings]_vars

(***************************************************************************)
(* One rotor on its own: the left rotor of machine 1 is stepped, then a    *)
(* letter is sent forward through it and the result backward.              *)
(***************************************************************************)
RotorConfigs ==
  [rotorIDs : {<<0, 1, 2>>, <<1, 2, 0>>, <<2, 0, 1>>},
   rotorPositions : {<<0, 0, 0>>},
   ringSettings : {<<0, 0, 0>>, <<2, 4, 6>>, <<25, 0, 0>>},
   plugboardPairs : {<<>>}]

InitRotor ==
  /\ config \in RotorConfigs
  /\ enigma = [m \in Machines |-> newEnigma(config)]
  /\ calls = [m \in Machines |-> <<>>]
  /\ NoSeaBattle
  /\ NoValidator

\* rotor.step()
RotorStep ==
  /\ calls[1] = <<>>
  /\ enigma' = [enigma EXCEPT ![1].rotors[1] = step(@)]
  /\ UNCHANGED <<config, calls, seaVars, validatorVars>>

\* rotor.forward(x)
RotorForward ==
  /\ calls[1] = <<>>
  /\ \E x \in Letters :
       calls' = [calls EXCEPT ![1] =
                 Append(@, [op |-> "forward", input |-> <<x>>,
                            output |-> <<forward(enigma[1].rotors[1], x)>>,
                            before |-> positions(enigma[1]),
                            trace |-> <<>>])]
  /\ UNCHANGED <<config, enigma, seaVars, validatorVars>>

\* rotor.backward(forward)
RotorBackward ==
  /\ Len(calls[1]) = 1
  /\ calls' = [calls EXCEPT ![1] =
               Append(@, [op |-> "backward", input |-> calls[1][1].output,
                          output |-> <<backward(enigma[1].rotors[1],
                                                calls[1][1].output[1])>>,
                          before |-> positions(enigma[1]),
                          trace |-> <<>>])]
  /\ UNCHANGED <<config, enigma, seaVars, validatorVars>>

NextRotor == RotorStep \/ RotorForward \/ RotorBackward

SpecRotor == InitRotor /\ [][NextRotor]_vars

(***************************************************************************)
(* The stepping of the rotors over a whole period.  A machine is built at  *)
(* any of the 26 x 26 x 26 position triples and keys are pressed on it.    *)
(* Here calls[1] holds one record that counts the keypresses rather than   *)
(* one record per call.  From every start MaxPresses keypresses are        *)
(* followed; from the starts of PeriodStart a whole period more.           *)
(***************************************************************************)
Triples == (0..25) \X (0..25) \X (0..25)

\* 26 positions of the left rotor, 25 of the middle rotor, 26 of the right
Period == 26 * 25 * 26

PeriodConfigs ==
  [rotorIDs : RotorIDChoices, rotorPositions : Triples,
   ringSettings : {<<0, 0, 0>>}, plugboardPairs : {<<>>}]

InitPeriod ==
  /\ config \in PeriodConfigs
  /\ enigma = [m \in Machines |-> newEnigma(config)]
  /\ calls = [m \in Machines |-> <<>>]
  /\ NoSeaBattle
  /\ NoValidator

\* the number of keys pressed on machine 1
keysPressed == IF calls[1] = <<>> THEN 0 ELSE calls[1][1].keys

\* the starts that are followed over a whole period: all rotors at 0, and the
\* left rotor at 0 with the middle and the right rotor at their notches
PeriodStart ==
  \/ config.rotorPositions = <<0, 0, 0>>
  \/ /\ config.rotorPositions[1] = 0
     /\ atNotch(newEnigma(config).rotors[2])
     /\ atNotch(newEnigma(config).rotors[3])

\* enigma[1].encryptChar("A"), counted
KeyPress ==
  /\ keysPressed < (IF PeriodStart THEN Period ELSE 0) + MaxPresses
  /\ enigma' = [enigma EXCEPT ![1] = encryptChar(@, "A").enigma]
  /\ calls' = [calls EXCEPT ![1] =
               <<[op |-> "encryptChar", keys |-> keysPressed + 1]>>]
  /\ UNCHANGED <<config, seaVars, validatorVars>>

NextPeriod == KeyPress

SpecPeriod == InitPeriod /\ [][NextPeriod]_vars

(***************************************************************************)
(* Sea Battle: utilities.                                                  *)
(***************************************************************************)
SYMBOLS == [WATER |-> "~", SHIP |-> "S", HIT |-> "X", MISS |-> "O"]

isValidCoordinate(row, col, boardSize) ==
  row >= 0 /\ row < boardSize /\ col >= 0 /\ col < boardSize

decimalDigits == <<"0", "1", "2", "3", "4", "5", "6", "7", "8", "9">>

\* String(n): the decimal digits of n, as a sequence of characters
RECURSIVE String(_)
String(n) ==
  IF n < 0 THEN <<"-">> \o String(0 - n)
  ELSE IF n < 10 THEN <<decimalDigits[n + 1]>>
  ELSE String(n \div 10) \o <<decimalDigits[(n % 10) + 1]>>

coordinatesToString(row, col) == String(row) \o String(col)

\* the values Math.floor(Math.random() * (max - min)) + min can take
randomInt(min, max) == IF max > min THEN min..(max - 1) ELSE max..min

randomOrientation == {"horizontal", "vertical"}

getAdjacentCoordinates(row, col, boardSize) ==
  SelectSeq(<<[row |-> row - 1, col |-> col], [row |-> row + 1, col |-> col],
              [row |-> row, col |-> col - 1], [row |-> row, col |-> col + 1]>>,
            LAMBDA coord : isValidCoordinate(coord.row, coord.col, boardSize))

(***************************************************************************)
(* Sea Battle: Ship. locations is the list of location strings in the      *)
(* order they were added, hits the set of location strings that were hit.  *)
(***************************************************************************)
Ship(length) == [length |-> length, locations |-> <<>>, hits |-> {}]

addLocation(ship, row, col) ==
  [ship EXCEPT !.locations = Append(@, coordinatesToString(row, col))]

occupies(ship, location) ==
  \E i \in 1..Len(ship.locations) : ship.locations[i] = location

\* hit that records any location that was not hit before
hitAnywhere(ship, location) ==
  IF location \notin ship.hits
    THEN [ship |-> [ship EXCEPT !.hits = @ \cup {location}], result |-> TRUE]
    ELSE [ship |-> ship, result |-> FALSE]

\* hit(location): the ship after the call and the value returned
hit(ship, location) ==
  IF occupies(ship, location) /\ location \notin ship.hits
    THEN [ship |-> [ship EXCEPT !.hits = @ \cup {location}], result |-> TRUE]
    ELSE [ship |-> ship, result |-> FALSE]

isSunk(ship) == Cardinality(ship.hits) >= ship.length

(***************************************************************************)
(* Sea Battle: Board. grid[row][col] is the symbol of a cell, ships the    *)
(* list of ships in the order they were placed, guesses the set of         *)
(* location strings shot at.                                               *)
(***************************************************************************)
initializeGrid(size) ==
  [row \in 0..(size - 1) |-> [col \in 0..(size - 1) |-> SYMBOLS.WATER]]

Board(size, showShips) ==
  [size |-> size, showShips |-> showShips, grid |-> initializeGrid(size),
   ships |-> <<>>, guesses |-> {}]

\* the i-th cell (from 0) of a ship starting at startRow, startCol
shipRow(startRow, i, orientation) ==
  IF orientation = "horizontal" THEN startRow ELSE startRow + i

shipCol(startCol, i, orientation) ==
  IF orientation = "horizontal" THEN startCol + i ELSE startCol

\* the start positions getRandomStartPosition can return
getRandomStartPosition(board, shipLength, orientation) ==
  IF orientation = "horizontal"
    THEN {[startRow |-> r, startCol |-> c] :
            r \in randomInt(0, board.size),
            c \in randomInt(0, board.size - shipLength + 1)}
    ELSE {[startRow |-> r, startCol |-> c] :
            r \in randomInt(0, board.size - shipLength + 1),
            c \in randomInt(0, board.size)}

canPlaceShip(board, startRow, startCol, length, orientation) ==
  \A i \in 0..(length - 1) :
    /\ isValidCoordinate(shipRow(startRow, i, orientation),
                         shipCol(startCol, i, orientation), board.size)
    /\ board.grid[shipRow(startRow, i, orientation)]
                 [shipCol(startCol, i, orientation)] = SYMBOLS.WATER

\* placeShip(ship, ...): the ship with its locations and the board, whose
\* grid shows the ship only when showShips is set
RECURSIVE placeShipFrom(_, _, _, _, _, _)
placeShipFrom(board, ship, startRow, startCol, orientation, i) ==
  IF i >= ship.length THEN [board |-> board, ship |-> ship]
  ELSE LET row == shipRow(startRow, i, orientation)
           col == shipCol(startCol, i, orientation)
       IN  placeShipFrom(
             IF board.showShips
               THEN [board EXCEPT !.grid[row][col] = SYMBOLS.SHIP]
               ELSE board,
             addLocation(ship, row, col),
             startRow, startCol, orientation, i + 1)

placeShip(board, ship, startRow, startCol, orientation) ==
  placeShipFrom(board, ship, startRow, startCol, orientation, 0)

\* the attempts placeShipsRandomly allows itself
maxAttempts == 1000

\* the loop of placeShipsRandomly from placedShips placed ships on: every
\* draw of orientation and start position either places a ship or uses up
\* an attempt; the loop ends with numShips ships or, when some draw cannot
\* be placed, with the attempts used up. The outcomes are the boards it can
\* end with and the value returned.
RECURSIVE placeShipsLoop(_, _, _, _)
placeShipsLoop(board, numShips, shipLength, placedShips) ==
  IF placedShips >= numShips \/ placedShips >= maxAttempts
    THEN {[board |-> board, result |-> placedShips = numShips]}
    ELSE LET draws ==
               UNION {{[orientation |-> o, startRow |-> s.startRow,
                        startCol |-> s.startCol] :
                         s \in getRandomStartPosition(board, shipLength, o)} :
                      o \in randomOrientation}
             placeable ==
               {d \in draws : canPlaceShip(board, d.startRow, d.startCol,
                                           shipLength, d.orientation)}
             placed(d) ==
               LET p == placeShip(board, Ship(shipLength), d.startRow,
                                  d.startCol, d.orientation)
               IN  [p.board EXCEPT !.ships = Append(@, p.ship)]
         IN  UNION {placeShipsLoop(placed(d), numShips, shipLength,
                                   placedShips + 1) : d \in placeable}
             \cup (IF placeable # draws
                     THEN {[board |-> board, result |-> FALSE]}
                     ELSE {})

placeShipsRandomly(board, numShips, shipLength) ==
  placeShipsLoop(board, numShips, shipLength, 0)

\* processShot without the check for a cell that was shot before
processShotAgain(board, row, col) ==
  LET location == coordinatesToString(row, col)
      occupied == {k \in 1..Len(board.ships) : occupies(board.ships[k], location)}
      guessed == [board EXCEPT !.guesses = @ \cup {location}]
  IN  IF occupied # {}
        THEN LET k == CHOOSE j \in occupied : \A l \in occupied : j <= l
                 h == hit(board.ships[k], location)
             IN  IF h.result
                   THEN [board |-> [guessed EXCEPT !.ships[k] = h.ship,
                                                   !.grid[row][col] = SYMBOLS.HIT],
                         result |-> [hit |-> TRUE, sunk |-> isSunk(h.ship),
                                     alreadyGuessed |-> FALSE]]
                   ELSE [board |-> [guessed EXCEPT !.grid[row][col] = SYMBOLS.MISS],
                         result |-> [hit |-> FALSE, sunk |-> FALSE,
                                     alreadyGuessed |-> FALSE]]
        ELSE [board |-> [guessed EXCEPT !.grid[row][col] = SYMBOLS.MISS],
              result |-> [hit |-> FALSE, sunk |-> FALSE,
                          alreadyGuessed |-> FALSE]]

\* processShot that leaves the grid alone when the shot misses
processShotNoMiss(board, row, col) ==
  LET location == coordinatesToString(row, col)
      occupied == {k \in 1..Len(board.ships) : occupies(board.ships[k], location)}
      guessed == [board EXCEPT !.guesses = @ \cup {location}]
  IN  IF location \in board.guesses
        THEN [board |-> board,
              result |-> [hit |-> FALSE, sunk |-> FALSE, alreadyGuessed |-> TRUE]]
      ELSE IF occupied # {}
        THEN LET k == CHOOSE j \in occupied : \A l \in occupied : j <= l
                 h == hit(board.ships[k], location)
             IN  [board |-> [guessed EXCEPT !.ships[k] = h.ship,
                                            !.grid[row][col] = SYMBOLS.HIT],
                  result |-> [hit |-> TRUE, sunk |-> isSunk(h.ship),
                              alreadyGuessed |-> FALSE]]
        ELSE [board |-> guessed,
              result |-> [hit |-> FALSE, sunk |-> FALSE,
                          alreadyGuessed |-> FALSE]]

\* processShot(row, col): the board after the call and the value returned
processShot(board, row, col) ==
  LET location == coordinatesToString(row, col)
      occupied == {k \in 1..Len(board.ships) : occupies(board.ships[k], location)}
      guessed == [board EXCEPT !.guesses = @ \cup {location}]
  IN  IF location \in board.guesses
        THEN [board |-> board,
              result |-> [hit |-> FALSE, sunk |-> FALSE, alreadyGuessed |-> TRUE]]
      ELSE IF occupied # {}
        THEN LET k == CHOOSE j \in occupied : \A l \in occupied : j <= l
                 h == hit(board.ships[k], location)
             IN  IF h.result
                   THEN [board |-> [guessed EXCEPT !.ships[k] = h.ship,
                                                   !.grid[row][col] = SYMBOLS.HIT],
                         result |-> [hit |-> TRUE, sunk |-> isSunk(h.ship),
                                     alreadyGuessed |-> FALSE]]
                   ELSE [board |-> [guessed EXCEPT !.grid[row][col] = SYMBOLS.MISS],
                         result |-> [hit |-> FALSE, sunk |-> FALSE,
                                     alreadyGuessed |-> FALSE]]
        ELSE [board |-> [guessed EXCEPT !.grid[row][col] = SYMBOLS.MISS],
              result |-> [hit |-> FALSE, sunk |-> FALSE,
                          alreadyGuessed |-> FALSE]]

hasShipsRemaining(board) ==
  \E k \in 1..Len(board.ships) : ~isSunk(board.ships[k])

(***************************************************************************)
(* Sea Battle: the AI player. A move is [row, col]; makeMove and the       *)
(* operations it calls give the set of outcomes the random draws allow,    *)
(* each with the player after the call, the move and whether it threw.     *)
(***************************************************************************)
AI_MODES == [HUNT |-> "hunt", TARGET |-> "target"]

AiPlayer(boardSize) ==
  [boardSize |-> boardSize, guesses |-> {}, mode |-> AI_MODES.HUNT,
   targetQueue |-> <<>>]

NoMove == [row |-> -1, col |-> -1]

\* the cells of the board whose string is not in guesses
availableMoves(ai) ==
  {c \in [row : 0..(ai.boardSize - 1), col : 0..(ai.boardSize - 1)] :
     coordinatesToString(c.row, c.col) \notin ai.guesses}

\* the first cell, row by row, that was not guessed; throws when there is none
findFirstAvailableMove(ai) ==
  IF availableMoves(ai) = {}
    THEN [ai |-> ai, move |-> NoMove, thrown |-> TRUE]
    ELSE [ai |-> ai,
          move |-> CHOOSE c \in availableMoves(ai) :
                     \A d \in availableMoves(ai) :
                       c.row < d.row \/ (c.row = d.row /\ c.col <= d.col),
          thrown |-> FALSE]

\* a random cell that was not guessed, or, when every draw fell on a guessed
\* cell, the first available one
getHuntMove(ai) ==
  LET draws == {[row |-> r, col |-> c] : r \in randomInt(0, ai.boardSize),
                                          c \in randomInt(0, ai.boardSize)}
      fresh == {d \in draws : coordinatesToString(d.row, d.col) \notin ai.guesses}
  IN  {[ai |-> ai, move |-> d, thrown |-> FALSE] : d \in fresh}
      \cup (IF fresh # draws THEN {findFirstAvailableMove(ai)} ELSE {})

\* getTargetedMove that returns the first target, guessed or not
getTargetedMoveNoSkip(ai) ==
  IF Len(ai.targetQueue) > 0
    THEN {[ai |-> [ai EXCEPT !.targetQueue = Tail(@)],
           move |-> Head(ai.targetQueue), thrown |-> FALSE]}
    ELSE getHuntMove([ai EXCEPT !.mode = AI_MODES.HUNT])

\* the first target of the queue that was not guessed, or a hunt move
RECURSIVE getTargetedMove(_)
getTargetedMove(ai) ==
  IF Len(ai.targetQueue) > 0
    THEN LET target == Head(ai.targetQueue)
             shifted == [ai EXCEPT !.targetQueue = Tail(@)]
         IN  IF coordinatesToString(target.row, target.col) \notin ai.guesses
               THEN {[ai |-> shifted, move |-> target, thrown |-> FALSE]}
               ELSE getTargetedMove(shifted)
    ELSE getHuntMove([ai EXCEPT !.mode = AI_MODES.HUNT])

\* makeMove that does not remember the move it returns
makeMoveForgets(ai) ==
  IF ai.mode = AI_MODES.TARGET /\ Len(ai.targetQueue) > 0
    THEN getTargetedMove(ai)
    ELSE getHuntMove([ai EXCEPT !.mode = AI_MODES.HUNT])

makeMove(ai) ==
  LET picks == IF ai.mode = AI_MODES.TARGET /\ Len(ai.targetQueue) > 0
                 THEN getTargetedMove(ai)
                 ELSE getHuntMove([ai EXCEPT !.mode = AI_MODES.HUNT])
  IN  {IF p.thrown
         THEN p
         ELSE [p EXCEPT !.ai.guesses =
                 @ \cup {coordinatesToString(p.move.row, p.move.col)}] :
       p \in picks}

RECURSIVE addAdjacentFrom(_, _, _)
addAdjacentFrom(ai, adjacentCoords, i) ==
  IF i > Len(adjacentCoords) THEN ai
  ELSE LET coord == adjacentCoords[i]
       IN  addAdjacentFrom(
             IF /\ coordinatesToString(coord.row, coord.col) \notin ai.guesses
                /\ ~\E k \in 1..Len(ai.targetQueue) :
                      /\ ai.targetQueue[k].row = coord.row
                      /\ ai.targetQueue[k].col = coord.col
               THEN [ai EXCEPT !.targetQueue = Append(@, coord)]
               ELSE ai,
             adjacentCoords, i + 1)

\* addAdjacentTargets that queues every adjacent cell of the board
addAdjacentTargetsUnchecked(ai, row, col) ==
  [ai EXCEPT !.targetQueue = @ \o getAdjacentCoordinates(row, col, ai.boardSize)]

addAdjacentTargets(ai, row, col) ==
  addAdjacentFrom(ai, getAdjacentCoordinates(row, col, ai.boardSize), 1)

\* processResult that goes back to hunting after a miss
processResultMissToHunt(ai, row, col, isHit, sunk) ==
  IF isHit
    THEN IF sunk
           THEN [ai EXCEPT !.mode = AI_MODES.HUNT, !.targetQueue = <<>>]
           ELSE addAdjacentTargets([ai EXCEPT !.mode = AI_MODES.TARGET], row, col)
    ELSE [ai EXCEPT !.mode = AI_MODES.HUNT, !.targetQueue = <<>>]

processResult(ai, row, col, isHit, sunk) ==
  IF isHit
    THEN IF sunk
           THEN [ai EXCEPT !.mode = AI_MODES.HUNT, !.targetQueue = <<>>]
           ELSE addAdjacentTargets([ai EXCEPT !.mode = AI_MODES.TARGET], row, col)
    ELSE ai

reset(ai) ==
  [ai EXCEPT !.guesses = {}, !.mode = AI_MODES.HUNT, !.targetQueue = <<>>]

(***************************************************************************)
(* Sea Battle: the game. A game is the record of its boards, its AI player *)
(* and its gameState; the configuration it is played with is gameConfig.   *)
(***************************************************************************)
GAME_STATES ==
  [INITIALIZING |-> "initializing", PLAYER_TURN |-> "player_turn",
   AI_TURN |-> "ai_turn", GAME_OVER |-> "game_over"]

null == <<>>

SeaBattleGame ==
  [playerBoard |-> null, opponentBoard |-> null, aiPlayer |-> null,
   gameState |-> GAME_STATES.INITIALIZING]

isDigit(c) == \E i \in 1..Len(decimalDigits) : decimalDigits[i] = c

\* parseInt of one character that is a digit
parseInt(c) == (CHOOSE i \in 1..Len(decimalDigits) : decimalDigits[i] = c) - 1

\* the coordinates of a string, or the error thrown
parseCoordinates(coordinateStr) ==
  IF Len(coordinateStr) # 2
    THEN [error |-> "Coordinates must contain exactly two characters",
          row |-> -1, col |-> -1]
  ELSE IF ~isDigit(coordinateStr[1]) \/ ~isDigit(coordinateStr[2])
    THEN [error |-> "Coordinates must be numbers", row |-> -1, col |-> -1]
  ELSE [error |-> "none", row |-> parseInt(coordinateStr[1]),
        col |-> parseInt(coordinateStr[2])]

RECURSIVE trimStart(_)
trimStart(str) ==
  IF Len(str) > 0 /\ Head(str) = " " THEN trimStart(Tail(str)) ELSE str

RECURSIVE trimEnd(_)
trimEnd(str) ==
  IF Len(str) > 0 /\ str[Len(str)] = " "
    THEN trimEnd(SubSeq(str, 1, Len(str) - 1))
    ELSE str

trim(str) == trimEnd(trimStart(str))

\* the coordinates of the player's input, or the error thrown; the range
\* message ends with the largest coordinate of the board
validatePlayerInput(input, boardSize) ==
  IF Len(trim(input)) = 0
    THEN [error |-> "Empty input", row |-> -1, col |-> -1]
  ELSE LET coordinates == parseCoordinates(trim(input))
       IN  IF coordinates.error # "none" THEN coordinates
           ELSE IF ~isValidCoordinate(coordinates.row, coordinates.col, boardSize)
             THEN [error |-> "Coordinates must be in range", row |-> -1, col |-> -1]
           ELSE coordinates

\* initialize(): the games it can leave, and whether it threw because a
\* board did not get its ships
initialize(g, cfg) ==
  {[game |-> [g EXCEPT !.playerBoard = p.board,
                       !.opponentBoard = o.board,
                       !.aiPlayer = AiPlayer(cfg.BOARD_SIZE),
                       !.gameState = IF p.result /\ o.result
                                       THEN GAME_STATES.PLAYER_TURN
                                       ELSE @],
    thrown |-> ~(p.result /\ o.result)] :
     p \in placeShipsRandomly(Board(cfg.BOARD_SIZE, TRUE),
                              cfg.NUM_SHIPS, cfg.SHIP_LENGTH),
     o \in placeShipsRandomly(Board(cfg.BOARD_SIZE, FALSE),
                              cfg.NUM_SHIPS, cfg.SHIP_LENGTH)}

\* handlePlayerInput that takes a shot at a cell shot before for a valid move
handlePlayerInputAnyShot(g, cfg, input) ==
  LET move == validatePlayerInput(input, cfg.BOARD_SIZE)
  IN  IF move.error # "none"
        THEN [game |-> g, validMove |-> FALSE, error |-> move.error]
        ELSE LET shot == processShot(g.opponentBoard, move.row, move.col)
                 shotAt == [g EXCEPT !.opponentBoard = shot.board]
             IN  [game |-> IF hasShipsRemaining(shotAt.opponentBoard)
                             THEN [shotAt EXCEPT !.gameState = GAME_STATES.AI_TURN]
                             ELSE shotAt,
                  validMove |-> TRUE, error |-> "none"]

\* one round of the loop of handlePlayerTurn, for one line of input: the game
\* after it, whether the move was valid, and the error shown
handlePlayerInput(g, cfg, input) ==
  LET move == validatePlayerInput(input, cfg.BOARD_SIZE)
  IN  IF move.error # "none"
        THEN [game |-> g, validMove |-> FALSE, error |-> move.error]
        ELSE LET shot == processShot(g.opponentBoard, move.row, move.col)
                 shotAt == [g EXCEPT !.opponentBoard = shot.board]
             IN  IF shot.result.alreadyGuessed
                   THEN [game |-> shotAt, validMove |-> FALSE, error |-> "none"]
                   ELSE [game |-> IF hasShipsRemaining(shotAt.opponentBoard)
                                    THEN [shotAt EXCEPT !.gameState =
                                            GAME_STATES.AI_TURN]
                                    ELSE shotAt,
                         validMove |-> TRUE, error |-> "none"]

\* handleAiTurn(): the games it can leave, and whether makeMove threw
handleAiTurn(g) ==
  {IF m.thrown
     THEN [game |-> [g EXCEPT !.aiPlayer = m.ai], thrown |-> TRUE]
     ELSE LET shot == processShot(g.playerBoard, m.move.row, m.move.col)
              ai == processResult(m.ai, m.move.row, m.move.col,
                                  shot.result.hit, shot.result.sunk)
              shotAt == [g EXCEPT !.playerBoard = shot.board, !.aiPlayer = ai]
          IN  [game |-> IF hasShipsRemaining(shotAt.playerBoard)
                          THEN [shotAt EXCEPT !.gameState =
                                  GAME_STATES.PLAYER_TURN]
                          ELSE shotAt,
               thrown |-> FALSE] :
   m \in makeMove(g.aiPlayer)}

\* checkGameEnd that looks at the opponent board only
checkGameEndOpponentOnly(g) ==
  IF ~hasShipsRemaining(g.opponentBoard)
    THEN [g EXCEPT !.gameState = GAME_STATES.GAME_OVER]
    ELSE g

checkGameEnd(g) ==
  IF ~hasShipsRemaining(g.playerBoard) \/ ~hasShipsRemaining(g.opponentBoard)
    THEN [g EXCEPT !.gameState = GAME_STATES.GAME_OVER]
    ELSE g

\* endGame(): what displayVictory is called with
endGame(g) == [playerWon |-> hasShipsRemaining(g.opponentBoard) = FALSE]

(***************************************************************************)
(* Sea Battle: a board on its own. The two boards are built as initialize  *)
(* builds them, the player's with showShips and the opponent's without;    *)
(* ships are placed on one of them and it is shot at.                      *)
(***************************************************************************)
BoardSizes == {2, 3}

NumShipsChoices == {1, 2}

ShipLengthChoices == {2, 3}

Boards == {"playerBoard", "opponentBoard"}

otherBoard(b) == IF b = "playerBoard" THEN "opponentBoard" ELSE "playerBoard"

\* nothing was done on the board b yet
Untouched(b) == game[b] = Board(game[b].size, game[b].showShips)

InitBoard ==
  /\ NoEnigmaMachines
  /\ NoValidator
  /\ gameConfig = <<>>
  /\ \E size \in BoardSizes :
       game = [playerBoard |-> Board(size, TRUE),
               opponentBoard |-> Board(size, FALSE),
               aiPlayer |-> <<>>, gameState |-> "initializing"]
  /\ pc = "none"
  /\ returned = {}
  /\ last = [op |-> "none"]

\* game[b].placeShipsRandomly(numShips, shipLength)
PlaceShipsRandomly(b, numShips, shipLength) ==
  \E o \in placeShipsRandomly(game[b], numShips, shipLength) :
    /\ game' = [game EXCEPT ![b] = o.board]
    /\ last' = [op |-> "placeShipsRandomly", target |-> b,
                args |-> <<numShips, shipLength>>, result |-> o.result,
                before |-> game]
    /\ UNCHANGED <<enigmaVars, validatorVars, gameConfig, pc, returned>>

\* game[b].processShot(row, col)
ProcessShot(b, row, col) ==
  \E r \in {processShot(game[b], row, col)} :
    /\ game' = [game EXCEPT ![b] = r.board]
    /\ last' = [op |-> "processShot", target |-> b, args |-> <<row, col>>,
                result |-> r.result, before |-> game]
    /\ UNCHANGED <<enigmaVars, validatorVars, gameConfig, pc, returned>>

\* ships are placed on a new board
BoardPlaceShips(b) ==
  /\ Untouched(b)
  /\ Untouched(otherBoard(b))
  /\ \E numShips \in NumShipsChoices : \E shipLength \in ShipLengthChoices :
       PlaceShipsRandomly(b, numShips, shipLength)

\* a cell of the board is shot at, for the first time or again
BoardShot(b) ==
  /\ Untouched(otherBoard(b))
  /\ \E row \in 0..(game[b].size - 1) : \E col \in 0..(game[b].size - 1) :
       /\ \/ coordinatesToString(row, col) \in game[b].guesses
          \/ Cardinality(game[b].guesses) < MaxShots
       /\ ProcessShot(b, row, col)

NextBoard ==
  \/ \E b \in Boards : BoardPlaceShips(b)
  \/ \E b \in Boards : BoardShot(b)

SpecBoard == InitBoard /\ [][NextBoard]_vars

(***************************************************************************)
(* Sea Battle: the ships of a board on their own. Ships are placed on a    *)
(* board and hit is called on them with the location of any cell of the    *)
(* board and with a location outside it.                                   *)
(***************************************************************************)
\* the locations hit is called with
HitLocations(size) ==
  {coordinatesToString(row, col) : row \in 0..(size - 1), col \in 0..(size - 1)}
    \cup {coordinatesToString(9, 9)}

\* game[b].ships[k].hit(location)
ShipHit(b, k, location) ==
  \E h \in {hit(game[b].ships[k], location)} :
    /\ game' = [game EXCEPT ![b].ships[k] = h.ship]
    /\ last' = [op |-> "hit", target |-> b, args |-> <<k, location>>,
                result |-> h.result, before |-> game]
    /\ UNCHANGED <<enigmaVars, validatorVars, gameConfig, pc, returned>>

\* a ship of the board is hit at some location
ShipHitAny(b) ==
  \E k \in 1..Len(game[b].ships) : \E location \in HitLocations(game[b].size) :
    ShipHit(b, k, location)

NextShip ==
  \/ \E b \in Boards : BoardPlaceShips(b)
  \/ \E b \in Boards : ShipHitAny(b)

SpecShip == InitBoard /\ [][NextShip]_vars

(***************************************************************************)
(* Sea Battle: the AI player on its own, under every interleaving of       *)
(* makeMove, processResult and reset.                                      *)
(***************************************************************************)
AiBoardSizes == {2, 3}

InitAi ==
  /\ NoEnigmaMachines
  /\ NoValidator
  /\ gameConfig = <<>>
  /\ \E size \in AiBoardSizes :
       game = [playerBoard |-> Board(size, TRUE),
               opponentBoard |-> Board(size, FALSE),
               aiPlayer |-> AiPlayer(size), gameState |-> "initializing"]
  /\ pc = "none"
  /\ returned = {}
  /\ last = [op |-> "none"]

\* game.aiPlayer.makeMove()
AiMakeMove ==
  \E p \in makeMove(game.aiPlayer) :
    /\ game' = [game EXCEPT !.aiPlayer = p.ai]
    /\ returned' = IF p.thrown THEN returned ELSE returned \cup {p.move}
    /\ last' = [op |-> "makeMove", result |-> p.move, thrown |-> p.thrown,
                before |-> game.aiPlayer, returnedBefore |-> returned]
    /\ UNCHANGED <<enigmaVars, validatorVars, gameConfig, pc>>

\* game.aiPlayer.processResult(row, col, hit, sunk): for any cell on the
\* board of size 2; on the larger board for the move makeMove has just
\* returned, as handleAiTurn calls it
AiProcessResult ==
  \E row \in 0..(game.aiPlayer.boardSize - 1) :
    \E col \in 0..(game.aiPlayer.boardSize - 1) :
      \E isHit \in BOOLEAN : \E sunk \in BOOLEAN :
        /\ \/ game.aiPlayer.boardSize = 2
           \/ /\ last.op = "makeMove"
              /\ ~last.thrown
              /\ row = last.result.row
              /\ col = last.result.col
        /\ game' = [game EXCEPT !.aiPlayer =
                      processResult(game.aiPlayer, row, col, isHit, sunk)]
        /\ last' = [op |-> "processResult", result |-> [row |-> row, col |-> col],
                    args |-> [hit |-> isHit, sunk |-> sunk],
                    thrown |-> FALSE, before |-> game.aiPlayer,
                    returnedBefore |-> returned]
        /\ UNCHANGED <<enigmaVars, validatorVars, gameConfig, pc, returned>>

\* game.aiPlayer.reset()
AiReset ==
  /\ game' = [game EXCEPT !.aiPlayer = reset(game.aiPlayer)]
  /\ returned' = {}
  /\ last' = [op |-> "reset", result |-> NoMove, thrown |-> FALSE,
              before |-> game.aiPlayer, returnedBefore |-> returned]
  /\ UNCHANGED <<enigmaVars, validatorVars, gameConfig, pc>>

NextAi == AiMakeMove \/ AiProcessResult \/ AiReset

SpecAi == InitAi /\ [][NextAi]_vars

(***************************************************************************)
(* Sea Battle: the AI player set up by hand, as its tests set it up: the   *)
(* mode, the target queue and the guesses are assigned before the calls.   *)
(***************************************************************************)
\* longest target queue a player is set up with
MaxQueue == 2

\* the board sizes of the players set up by hand
AiSetupSizes == {2}

AiSetupCells(size) == [row : 0..(size - 1), col : 0..(size - 1)]

\* the queues of up to MaxQueue different cells
AiSetupQueues(size) ==
  {q \in UNION {[1..n -> AiSetupCells(size)] : n \in 0..MaxQueue} :
     \A i, j \in 1..Len(q) : i # j => q[i] # q[j]}

InitAiSetup ==
  /\ NoEnigmaMachines
  /\ NoValidator
  /\ gameConfig = <<>>
  /\ \E size \in AiSetupSizes :
       \E mode \in {AI_MODES.HUNT, AI_MODES.TARGET} :
         \E targetQueue \in AiSetupQueues(size) :
           \E guessed \in SUBSET AiSetupCells(size) :
             game = [playerBoard |-> Board(size, TRUE),
                     opponentBoard |-> Board(size, FALSE),
                     aiPlayer |-> [AiPlayer(size) EXCEPT
                                     !.mode = mode,
                                     !.targetQueue = targetQueue,
                                     !.guesses = {coordinatesToString(c.row, c.col) :
                                                    c \in guessed}],
                     gameState |-> "initializing"]
  /\ pc = "none"
  /\ returned = {}
  /\ last = [op |-> "none"]

SpecAiSetup == InitAiSetup /\ [][NextAi]_vars

(***************************************************************************)
(* Sea Battle: the loops of placeShipsRandomly and getHuntMove, one pass   *)
(* of the loop at a time. last holds the locals of the call: placedShips   *)
(* and attempts, and the value returned at the end.                        *)
(***************************************************************************)
InitLoops ==
  /\ NoEnigmaMachines
  /\ NoValidator
  /\ returned = {}
  /\ last = [op |-> "call", placedShips |-> 0, attempts |-> 0]
  /\ \/ /\ pc = "placeShipsRandomly"
        /\ \E size \in BoardSizes :
             game = [playerBoard |-> Board(size, TRUE),
                     opponentBoard |-> Board(size, FALSE),
                     aiPlayer |-> AiPlayer(size), gameState |-> "initializing"]
        /\ gameConfig \in [target : Boards, numShips : NumShipsChoices,
                           shipLength : ShipLengthChoices]
     \/ /\ pc = "getHuntMove"
        /\ \E size \in AiSetupSizes : \E guessed \in SUBSET AiSetupCells(size) :
             game = [playerBoard |-> Board(size, TRUE),
                     opponentBoard |-> Board(size, FALSE),
                     aiPlayer |-> [AiPlayer(size) EXCEPT
                                     !.guesses = {coordinatesToString(c.row, c.col) :
                                                    c \in guessed}],
                     gameState |-> "initializing"]
        /\ gameConfig = <<>>

\* a pass of the loop of placeShipsRandomly that does not count the attempt
\* when the ship cannot be placed
PlaceAttemptUncounted ==
  /\ pc = "placeShipsRandomly"
  /\ last.placedShips < gameConfig.numShips
  /\ last.attempts < maxAttempts
  /\ \E orientation \in randomOrientation :
       \E s \in getRandomStartPosition(game[gameConfig.target],
                                       gameConfig.shipLength, orientation) :
         LET board == game[gameConfig.target]
             canPlace == canPlaceShip(board, s.startRow, s.startCol,
                                      gameConfig.shipLength, orientation)
             p == placeShip(board, Ship(gameConfig.shipLength),
                            s.startRow, s.startCol, orientation)
         IN  /\ game' = IF canPlace
                          THEN [game EXCEPT ![gameConfig.target] =
                                  [p.board EXCEPT !.ships = Append(@, p.ship)]]
                          ELSE game
             /\ last' = [op |-> "attempt",
                         placedShips |-> last.placedShips + (IF canPlace THEN 1 ELSE 0),
                         attempts |-> last.attempts + (IF canPlace THEN 1 ELSE 0),
                         attemptsBefore |-> last.attempts]
  /\ UNCHANGED <<enigmaVars, validatorVars, gameConfig, pc, returned>>

\* one pass of the loop of placeShipsRandomly: an attempt is counted, an
\* orientation and a start position are drawn and the ship is placed there
\* if it can be
PlaceAttempt ==
  /\ pc = "placeShipsRandomly"
  /\ last.placedShips < gameConfig.numShips
  /\ last.attempts < maxAttempts
  /\ \E orientation \in randomOrientation :
       \E s \in getRandomStartPosition(game[gameConfig.target],
                                       gameConfig.shipLength, orientation) :
         LET board == game[gameConfig.target]
             canPlace == canPlaceShip(board, s.startRow, s.startCol,
                                      gameConfig.shipLength, orientation)
             p == placeShip(board, Ship(gameConfig.shipLength),
                            s.startRow, s.startCol, orientation)
         IN  /\ game' = IF canPlace
                          THEN [game EXCEPT ![gameConfig.target] =
                                  [p.board EXCEPT !.ships = Append(@, p.ship)]]
                          ELSE game
             /\ last' = [op |-> "attempt",
                         placedShips |-> last.placedShips + (IF canPlace THEN 1 ELSE 0),
                         attempts |-> last.attempts + 1,
                         attemptsBefore |-> last.attempts]
  /\ UNCHANGED <<enigmaVars, validatorVars, gameConfig, pc, returned>>

\* the loop of placeShipsRandomly has ended: return placedShips === numShips
PlaceReturn ==
  /\ pc = "placeShipsRandomly"
  /\ ~(last.placedShips < gameConfig.numShips /\ last.attempts < maxAttempts)
  /\ pc' = "returned"
  /\ last' = [op |-> "return", placedShips |-> last.placedShips,
              attempts |-> last.attempts,
              result |-> (last.placedShips = gameConfig.numShips)]
  /\ UNCHANGED <<enigmaVars, validatorVars, gameConfig, game, returned>>

\* one pass of the loop of getHuntMove: a cell is drawn and returned if it was
\* not guessed; otherwise an attempt is counted
HuntAttempt ==
  /\ pc = "getHuntMove"
  /\ last.attempts < maxAttempts
  /\ \E row \in randomInt(0, game.aiPlayer.boardSize) :
       \E col \in randomInt(0, game.aiPlayer.boardSize) :
         IF coordinatesToString(row, col) \notin game.aiPlayer.guesses
           THEN /\ pc' = "returned"
                /\ last' = [op |-> "return", placedShips |-> 0,
                            attempts |-> last.attempts,
                            result |-> [row |-> row, col |-> col]]
           ELSE /\ pc' = pc
                /\ last' = [op |-> "attempt", placedShips |-> 0,
                            attempts |-> last.attempts + 1,
                            attemptsBefore |-> last.attempts]
  /\ UNCHANGED <<enigmaVars, validatorVars, gameConfig, game, returned>>

\* the loop of getHuntMove has ended: return this.findFirstAvailableMove()
HuntScan ==
  /\ pc = "getHuntMove"
  /\ ~(last.attempts < maxAttempts)
  /\ \E f \in {findFirstAvailableMove(game.aiPlayer)} :
       /\ pc' = IF f.thrown THEN "thrown" ELSE "returned"
       /\ last' = [op |-> "scan", placedShips |-> 0, attempts |-> last.attempts,
                   result |-> f.move]
  /\ UNCHANGED <<enigmaVars, validatorVars, gameConfig, game, returned>>

NextLoops == PlaceAttempt \/ PlaceReturn \/ HuntAttempt \/ HuntScan

SpecLoops == InitLoops /\ [][NextLoops]_vars

(***************************************************************************)
(* Sea Battle: startGame. pc is the place startGame has reached: before    *)
(* initialize, at the test of its loop, in a turn, before checkGameEnd,    *)
(* before endGame, done, or failed with an error. The player's turn takes  *)
(* one line of input at a time.                                            *)
(***************************************************************************)
GameConfigs ==
  {[BOARD_SIZE |-> 2, NUM_SHIPS |-> 1, SHIP_LENGTH |-> 2],
   [BOARD_SIZE |-> 2, NUM_SHIPS |-> 2, SHIP_LENGTH |-> 1],
   [BOARD_SIZE |-> 2, NUM_SHIPS |-> 2, SHIP_LENGTH |-> 2]}

\* lines the player can type that are not the plain name of a cell
OtherInputs ==
  {<<>>, <<" ">>, <<"0">>, <<"a", "0">>, <<"0", "0", "0">>, <<"9", "9">>,
   <<" ", "0", "1">>}

PlayerInputs(cfg) ==
  {coordinatesToString(row, col) : row \in 0..(cfg.BOARD_SIZE - 1),
                                   col \in 0..(cfg.BOARD_SIZE - 1)}
  \cup OtherInputs

InitGame ==
  /\ NoEnigmaMachines
  /\ NoValidator
  /\ gameConfig \in GameConfigs
  /\ game = SeaBattleGame
  /\ pc = "startGame"
  /\ returned = {}
  /\ last = [op |-> "none"]

Initialize ==
  /\ pc = "startGame"
  /\ \E i \in initialize(game, gameConfig) :
       /\ game' = i.game
       /\ pc' = IF i.thrown THEN "failed" ELSE "loop"
       /\ last' = [op |-> "initialize", before |-> game,
                   result |-> [thrown |-> i.thrown]]
  /\ UNCHANGED <<enigmaVars, validatorVars, gameConfig, returned>>

\* the test of the loop of startGame and the choice of the turn
LoopTest ==
  /\ pc = "loop"
  /\ pc' = IF game.gameState = GAME_STATES.GAME_OVER THEN "endGame"
           ELSE IF game.gameState = GAME_STATES.PLAYER_TURN
             THEN "handlePlayerTurn"
           ELSE IF game.gameState = GAME_STATES.AI_TURN THEN "handleAiTurn"
           ELSE "checkGameEnd"
  /\ UNCHANGED <<enigmaVars, validatorVars, gameConfig, game, returned, last>>

HandlePlayerInput ==
  /\ pc = "handlePlayerTurn"
  /\ \E input \in PlayerInputs(gameConfig) :
       \E h \in {handlePlayerInput(game, gameConfig, input)} :
         /\ game' = h.game
         /\ pc' = IF h.validMove THEN "checkGameEnd" ELSE pc
         /\ last' = [op |-> "handlePlayerTurn", before |-> game,
                     result |-> [validMove |-> h.validMove, error |-> h.error,
                                 input |-> input]]
  /\ UNCHANGED <<enigmaVars, validatorVars, gameConfig, returned>>

HandleAiTurn ==
  /\ pc = "handleAiTurn"
  /\ \E h \in handleAiTurn(game) :
       /\ game' = h.game
       /\ pc' = IF h.thrown THEN "failed" ELSE "checkGameEnd"
       /\ last' = [op |-> "handleAiTurn", before |-> game,
                   result |-> [thrown |-> h.thrown]]
  /\ UNCHANGED <<enigmaVars, validatorVars, gameConfig, returned>>

CheckGameEnd ==
  /\ pc = "checkGameEnd"
  /\ game' = checkGameEnd(game)
  /\ pc' = "loop"
  /\ last' = [op |-> "checkGameEnd", before |-> game, result |-> [thrown |-> FALSE]]
  /\ UNCHANGED <<enigmaVars, validatorVars, gameConfig, returned>>

EndGame ==
  /\ pc = "endGame"
  /\ pc' = "done"
  /\ last' = [op |-> "endGame", before |-> game, result |-> endGame(game)]
  /\ UNCHANGED <<enigmaVars, validatorVars, gameConfig, game, returned>>

NextGame ==
  \/ Initialize
  \/ LoopTest
  \/ HandlePlayerInput
  \/ HandleAiTurn
  \/ CheckGameEnd
  \/ EndGame

SpecGame == InitGame /\ [][NextGame]_vars

(***************************************************************************)
(* Validation library. A JavaScript value is [type, v]: a string with its  *)
(* characters, a number, undefined, null, an array with its items, a       *)
(* function, or an object with its own properties [key, value] in the      *)
(* order they were added. A message is the list of the pieces of its       *)
(* template, a path the list of the keys that "." joins. The timestamps of *)
(* errors and results are left out.                                        *)
(***************************************************************************)
Str(chars) == [type |-> "string", v |-> chars]

Num(n) == [type |-> "number", v |-> n]

Undefined == [type |-> "undefined", v |-> <<>>]

Null == [type |-> "null", v |-> <<>>]

Arr(items) == [type |-> "array", v |-> items]

Function == [type |-> "function", v |-> <<>>]

Obj(entries) == [type |-> "object", v |-> entries]

typeof(value) ==
  IF value.type \in {"null", "array"} THEN "object" ELSE value.type

\* the properties every object literal inherits from Object.prototype
ObjectPrototypeKeys ==
  {"constructor", "hasOwnProperty", "isPrototypeOf", "propertyIsEnumerable",
   "toLocaleString", "toString", "valueOf"}

\* Object.keys(entries), as a set
ownKeys(entries) == {entries[i].key : i \in 1..Len(entries)}

\* key in object, for an object literal with these own properties
keyIn(key, entries) == key \in ownKeys(entries) \/ key \in ObjectPrototypeKeys

\* object[key], for an object literal with these own properties
getProperty(entries, key) ==
  IF key \in ownKeys(entries)
    THEN entries[CHOOSE i \in 1..Len(entries) : entries[i].key = key].value
  ELSE IF key \in ObjectPrototypeKeys THEN Function
  ELSE Undefined

\* object[key] = value
setProperty(entries, key, value) ==
  IF key \in ownKeys(entries)
    THEN [i \in 1..Len(entries) |->
            IF entries[i].key = key THEN [key |-> key, value |-> value]
                                    ELSE entries[i]]
    ELSE Append(entries, [key |-> key, value |-> value])

ValidationError(message, path, value) ==
  [message |-> message, path |-> path, value |-> value]

ValidationResult(isValid, errors, value) ==
  [isValid |-> isValid, errors |-> errors, value |-> value]

BaseValidator(kind) ==
  [kind |-> kind, constraints |-> <<>>, customMessage |-> null,
   isOptional |-> FALSE, transformFn |-> null, schema |-> <<>>,
   allowUnknownKeys |-> FALSE]

StringValidator == BaseValidator("string")

NumberValidator == BaseValidator("number")

ObjectValidator(schema) == [BaseValidator("object") EXCEPT !.schema = schema]

optional(v) == [v EXCEPT !.isOptional = TRUE]

allowUnknown(v) == [v EXCEPT !.allowUnknownKeys = TRUE]

addConstraint(v, constraint) == [v EXCEPT !.constraints = Append(@, constraint)]

\* StringValidator.minLength(min)
minLength(v, min) ==
  addConstraint(v, [kind |-> "minLength", arg |-> min,
                    message |-> <<"String must be at least ">> \o String(min)
                                  \o <<" characters long">>])

\* NumberValidator.min(min)
min(v, m) ==
  addConstraint(v, [kind |-> "min", arg |-> m,
                    message |-> <<"Number must be at least ">> \o String(m)])

\* a constraint whose validate throws Error("Constraint failed")
failingConstraint ==
  [kind |-> "throws", arg |-> 0, message |-> <<"Constraint error">>]

\* a transform function that throws Error("Transform failed")
failingTransform == <<"() => { throw new Error(\"Transform failed\") }">>

transform(v, fn) == [v EXCEPT !.transformFn = fn]

\* transformFn(value): the value returned, or the message of the error thrown
applyTransform(fn, value) ==
  IF fn = failingTransform
    THEN [thrown |-> TRUE, message |-> "Transform failed", value |-> value]
    ELSE [thrown |-> FALSE, message |-> "", value |-> value]

\* constraint.validate(value): "true", "false", or the message of the error
\* thrown
constraintValidate(constraint, value) ==
  IF constraint.kind = "minLength"
    THEN IF Len(value.v) >= constraint.arg THEN "true" ELSE "false"
  ELSE IF constraint.kind = "min"
    THEN IF value.v >= constraint.arg THEN "true" ELSE "false"
  ELSE "Constraint failed"

\* a constraint loop that stops at the first constraint that fails or throws
RECURSIVE constraintErrorsFirstOnly(_, _, _, _)
constraintErrorsFirstOnly(v, value, path, i) ==
  IF i > Len(v.constraints) THEN <<>>
  ELSE LET constraint == v.constraints[i]
           isValid == constraintValidate(constraint, value)
       IN  IF isValid = "true"
             THEN constraintErrorsFirstOnly(v, value, path, i + 1)
           ELSE IF isValid = "false"
             THEN <<ValidationError(
                      IF v.customMessage # null THEN v.customMessage
                      ELSE IF constraint.message # <<>> THEN constraint.message
                      ELSE <<"Validation failed">>,
                      path, value)>>
           ELSE <<ValidationError(<<"Constraint error: ", isValid>>, path, value)>>

\* the errors of the constraints from the i-th on
RECURSIVE constraintErrors(_, _, _, _)
constraintErrors(v, value, path, i) ==
  IF i > Len(v.constraints) THEN <<>>
  ELSE LET constraint == v.constraints[i]
           isValid == constraintValidate(constraint, value)
       IN  (IF isValid = "true" THEN <<>>
            ELSE IF isValid = "false"
              THEN <<ValidationError(
                       IF v.customMessage # null THEN v.customMessage
                       ELSE IF constraint.message # <<>> THEN constraint.message
                       ELSE <<"Validation failed">>,
                       path, value)>>
            ELSE <<ValidationError(<<"Constraint error: ", isValid>>,
                                   path, value)>>)
           \o constraintErrors(v, value, path, i + 1)

\* the message of a failed type check
expected(v, typeName, value) ==
  IF v.customMessage # null THEN v.customMessage
  ELSE <<"Expected ", typeName, " but got ", typeof(value)>>

RECURSIVE validate(_, _, _)
RECURSIVE validateType(_, _, _)
RECURSIVE validateSchema(_, _, _, _, _)

\* the loop of ObjectValidator.validateType over the properties of the
\* schema from the i-th on: the errors and the validated value it builds
validateSchema(v, value, path, i, acc) ==
  IF i > Len(v.schema) THEN acc
  ELSE LET key == v.schema[i].key
           result == validate(v.schema[i].validator,
                              getProperty(value.v, key), Append(path, key))
       IN  validateSchema(v, value, path, i + 1,
             IF ~result.isValid
               THEN [acc EXCEPT !.errors = @ \o result.errors]
               ELSE [acc EXCEPT !.validatedValue =
                       setProperty(@, key, result.value)])

\* the errors for the own keys of the value, from the i-th on, that the
\* schema does not have
RECURSIVE unknownKeyErrors(_, _, _, _)
unknownKeyErrors(v, value, path, i) ==
  IF i > Len(value.v) THEN <<>>
  ELSE (IF value.v[i].key \notin ownKeys(v.schema)
          THEN <<ValidationError(
                   <<"Unknown property \"", value.v[i].key, "\"">>,
                   Append(path, value.v[i].key), value.v[i].value)>>
          ELSE <<>>)
       \o unknownKeyErrors(v, value, path, i + 1)

\* the validated value with the properties of the value, from the i-th on,
\* that are not in the schema
RECURSIVE includeUnknownKeys(_, _, _, _)
includeUnknownKeys(v, value, i, validatedValue) ==
  IF i > Len(value.v) THEN validatedValue
  ELSE includeUnknownKeys(v, value, i + 1,
         IF ~keyIn(value.v[i].key, v.schema)
           THEN setProperty(validatedValue, value.v[i].key, value.v[i].value)
           ELSE validatedValue)

validateObject(v, value, path) ==
  IF value.type # "object"
    THEN ValidationResult(FALSE,
           <<ValidationError(expected(v, "object", value), path, value)>>, value)
    ELSE LET known == validateSchema(v, value, path, 1,
                        [errors |-> <<>>, validatedValue |-> <<>>])
             checked == ~v.allowUnknownKeys /\ Len(v.schema) > 0
             errors == IF checked
                         THEN known.errors \o unknownKeyErrors(v, value, path, 1)
                         ELSE known.errors
             validatedValue ==
               IF checked THEN known.validatedValue
               ELSE includeUnknownKeys(v, value, 1, known.validatedValue)
         IN  IF Len(v.schema) = 0 /\ Len(errors) = 0
               THEN ValidationResult(TRUE, <<>>, value)
               ELSE ValidationResult(Len(errors) = 0, errors, Obj(validatedValue))

validateType(v, value, path) ==
  IF v.kind = "string"
    THEN IF typeof(value) # "string"
           THEN ValidationResult(FALSE,
                  <<ValidationError(expected(v, "string", value), path, value)>>,
                  value)
           ELSE ValidationResult(TRUE, <<>>, value)
  ELSE IF v.kind = "number"
    THEN IF typeof(value) # "number"
           THEN ValidationResult(FALSE,
                  <<ValidationError(expected(v, "number", value), path, value)>>,
                  value)
           ELSE ValidationResult(TRUE, <<>>, value)
  ELSE validateObject(v, value, path)

validate(v, value, path) ==
  IF value.type \in {"undefined", "null"} /\ v.isOptional
    THEN ValidationResult(TRUE, <<>>, value)
  ELSE LET transformed == IF v.transformFn # null
                            THEN applyTransform(v.transformFn, value)
                            ELSE [thrown |-> FALSE, message |-> "", value |-> value]
       IN  IF transformed.thrown
             THEN ValidationResult(FALSE,
                    <<ValidationError(<<"Transform error: ", transformed.message>>,
                                      path, value)>>, value)
           ELSE LET typeResult == validateType(v, transformed.value, path)
                IN  IF ~typeResult.isValid THEN typeResult
                    ELSE LET errors == constraintErrors(v, transformed.value, path, 1)
                         IN  ValidationResult(Len(errors) = 0, errors,
                               IF Len(errors) = 0 THEN typeResult.value
                               ELSE transformed.value)

(***************************************************************************)
(* Validation library: an ObjectValidator is built from a schema, may be   *)
(* configured with allowUnknown and optional, and validates values.        *)
(***************************************************************************)
John == Str(<<"J", "o", "h", "n">>)

Schemas ==
  {<<>>,
   <<[key |-> "name", validator |-> StringValidator]>>,
   <<[key |-> "name", validator |-> minLength(StringValidator, 2)],
     [key |-> "age", validator |-> optional(min(NumberValidator, 18))]>>,
   <<[key |-> "name", validator |-> transform(StringValidator, failingTransform)]>>,
   <<[key |-> "name", validator |-> addConstraint(StringValidator, failingConstraint)]>>,
   <<[key |-> "user",
      validator |-> ObjectValidator(
                      <<[key |-> "name", validator |-> StringValidator]>>)]>>}

\* the values a property is given
PropertyValues ==
  <<John, Num(30), Str(<<"x">>),
    Obj(<<[key |-> "name", value |-> John], [key |-> "extra", value |-> Num(1)]>>)>>

\* the properties an object is given: a key with the index of its value
PropertyChoices ==
  {<<"name", 1>>, <<"name", 2>>, <<"name", 3>>, <<"age", 1>>, <<"age", 2>>,
   <<"user", 1>>, <<"user", 4>>, <<"extra", 1>>, <<"extra", 2>>,
   <<"toString", 1>>}

\* the values handed to validate that are not plain objects
OtherValues == <<Undefined, Null, Arr(<<>>), John>>

\* the lists of n properties with distinct keys, for every n
Properties ==
  [n \in 0..MaxProps |->
     {f \in [1..n -> PropertyChoices] :
        \A i, j \in 1..n : i # j => f[i][1] # f[j][1]}]

ObjectOf(f) ==
  Obj([i \in 1..Len(f) |-> [key |-> f[i][1], value |-> PropertyValues[f[i][2]]]])

InitValidator ==
  /\ NoEnigmaMachines
  /\ gameConfig = <<>>
  /\ game = <<>>
  /\ pc = "none"
  /\ returned = {}
  /\ last = [op |-> "none"]
  /\ \E schema \in Schemas : validator = ObjectValidator(schema)

\* validator.allowUnknown()
AllowUnknown ==
  /\ validator' = allowUnknown(validator)
  /\ last' = [op |-> "allowUnknown", before |-> validator]
  /\ UNCHANGED <<enigmaVars, gameConfig, game, pc, returned>>

\* validator.optional()
Optional ==
  /\ validator' = optional(validator)
  /\ last' = [op |-> "optional", before |-> validator]
  /\ UNCHANGED <<enigmaVars, gameConfig, game, pc, returned>>

\* validator.validate(value), the path left at its default. validate leaves
\* the validator as it is, so a value is validated once the validator was
\* built or configured and not twice in a row.
Validate(value) ==
  /\ last.op # "validate"
  /\ last' = [op |-> "validate", before |-> validator, value |-> value,
              result |-> validate(validator, value, <<>>)]
  /\ UNCHANGED <<enigmaVars, gameConfig, game, pc, returned, validator>>

ValidateObject ==
  \E n \in 0..MaxProps : \E f \in Properties[n] : Validate(ObjectOf(f))

ValidateOther ==
  \E i \in 1..Len(OtherValues) : Validate(OtherValues[i])

NextValidator == AllowUnknown \/ Optional \/ ValidateObject \/ ValidateOther

SpecValidator == InitValidator /\ [][NextValidator]_vars

(***************************************************************************)
(* Validation library: a StringValidator or a NumberValidator is given     *)
(* constraints one after the other, may be made optional, and validates    *)
(* values of its type and of other types.                                  *)
(***************************************************************************)
\* number of constraints added to a validator
MaxConstraints == 3

\* the arguments of minLength and of min
MinLengthChoices == {2, 5}

MinChoices == {18, 40}

\* the values handed to validate
ConstraintValues ==
  <<Str(<<"x">>), John, Str(<<"J", "o", "h", "n", "n", "y">>), Num(5), Num(30),
    Num(50), Null, Undefined, Obj(<<>>)>>

InitConstraints ==
  /\ NoEnigmaMachines
  /\ gameConfig = <<>>
  /\ game = <<>>
  /\ pc = "none"
  /\ returned = {}
  /\ last = [op |-> "none"]
  /\ validator \in {StringValidator, NumberValidator}

\* validator.minLength(n), validator.min(n) or
\* validator.addConstraint({ validate: () => { throw ... }, message })
AddConstraint ==
  /\ Len(validator.constraints) < MaxConstraints
  /\ \/ /\ validator.kind = "string"
        /\ \E n \in MinLengthChoices : validator' = minLength(validator, n)
     \/ /\ validator.kind = "number"
        /\ \E n \in MinChoices : validator' = min(validator, n)
     \/ validator' = addConstraint(validator, failingConstraint)
  /\ last' = [op |-> "addConstraint", before |-> validator]
  /\ UNCHANGED <<enigmaVars, gameConfig, game, pc, returned>>

ValidateValue ==
  \E i \in 1..Len(ConstraintValues) : Validate(ConstraintValues[i])

NextConstraints == AddConstraint \/ Optional \/ ValidateValue

SpecConstraints == InitConstraints /\ [][NextConstraints]_vars

(***************************************************************************)
(* Claims.                                                                 *)
(***************************************************************************)
\* every call made so far, on either machine
AllCalls == UNION {{calls[m][k] : k \in 1..Len(calls[m])} : m \in Machines}

\* the notch letter of the rotor in slot i (1 left, 2 middle, 3 right)
notchOf(i) == ROTORS[config.rotorIDs[i] + 1].notch

\* C2: a keypress from the positions b leaves the left rotor one further iff
\* the middle rotor was at its notch, the middle rotor one further iff the
\* right or the middle rotor was at its notch and the right rotor one further
\* always (mod 26); no rotor moves by more than one position.
C2_Expected(b) ==
  LET middleWasAtNotch == alphabet[b[2] + 1] = notchOf(2)
      rightWasAtNotch == alphabet[b[3] + 1] = notchOf(3)
  IN  <<IF middleWasAtNotch THEN (b[1] + 1) % 26 ELSE b[1],
        IF rightWasAtNotch \/ middleWasAtNotch THEN (b[2] + 1) % 26 ELSE b[2],
        (b[3] + 1) % 26>>

C2_Stepping ==
  \A r \in AllCalls : r.op = "encryptChar" => r.trace[1] = C2_Expected(r.before)

\* C2 witness: a key was pressed with the middle and the right rotor both at
\* their notches, and one with neither at its notch
C2_Witness ==
  /\ \E r \in AllCalls :
       /\ alphabet[r.before[2] + 1] = notchOf(2)
       /\ alphabet[r.before[3] + 1] = notchOf(3)
  /\ \E r \in AllCalls :
       /\ alphabet[r.before[2] + 1] # notchOf(2)
       /\ alphabet[r.before[3] + 1] # notchOf(3)

\* C3: at any rotor positions a machine is in, the signal path (plugboard,
\* three rotors forward, reflector, three rotors backward, plugboard) applied
\* twice to a letter gives that letter back.
C3_Involution ==
  \A m \in Machines : \A x \in Letters :
    \A y \in {signalPath(enigma[m], x)} : signalPath(enigma[m], y) = x

\* C3 witness: a machine with plugboard pairs and ring settings has been
\* stepped and its signal path moves a plugged letter
C3_Witness ==
  \E m \in Machines :
    /\ calls[m] # <<>>
    /\ enigma[m].plugboardPairs # <<>>
    /\ config.ringSettings # <<0, 0, 0>>
    /\ signalPath(enigma[m], "A") # "A"

\* C5: rotors 0,1,2 at positions 0,4,0 with rings 0,0,0 and no plugboard:
\* encryptChar("A") on the fresh machine leaves the positions 1,5,1.
C5_Config ==
  [rotorIDs |-> <<0, 1, 2>>, rotorPositions |-> <<0, 4, 0>>,
   ringSettings |-> <<0, 0, 0>>, plugboardPairs |-> <<>>]

C5_DoubleStep ==
  \A m \in Machines :
    (config = C5_Config /\ calls[m] # <<>> /\ calls[m][1].input = <<"A">>)
      => /\ calls[m][1].before = <<0, 4, 0>>
         /\ calls[m][1].trace[1] = <<1, 5, 1>>
         /\ (Len(calls[m]) = 1 => positions(enigma[m]) = <<1, 5, 1>>)

\* C5 witness: that call has been made
C5_Witness ==
  /\ config = C5_Config
  /\ Len(calls[1]) = 1
  /\ calls[1][1].op = "encryptChar"
  /\ calls[1][1].input = <<"A">>
  /\ calls[1][1].before = <<0, 4, 0>>
  /\ positions(enigma[1]) = <<1, 5, 1>>

\* the letters among the modelled characters; every other character is a
\* non-letter
IsLetter(c) == c \in Letters \cup LowerLetters \cup {"ß"}

\* a text of uppercase letters A-Z and non-letter characters
IsPlain(text) ==
  \A i \in 1..Len(text) : text[i] \in Letters \/ ~IsLetter(text[i])

\* C1: a fresh machine maps a text P of uppercase letters and non-letters to
\* E; a second fresh machine of the same configuration maps E back to P.
C1_Symmetry ==
  \A m \in Machines :
    (/\ calls[m] # <<>>
     /\ calls[other(m)] # <<>>
     /\ IsPlain(calls[m][1].input)
     /\ calls[other(m)][1].input = calls[m][1].output)
      => calls[other(m)][1].output = calls[m][1].input

\* C1 witness: with plugboard pairs and ring settings, a text holding a letter
\* and a non-letter was encrypted to a different text and decrypted
C1_Witness ==
  \E m \in Machines :
    /\ config.plugboardPairs # <<>>
    /\ config.ringSettings # <<0, 0, 0>>
    /\ calls[m] # <<>>
    /\ calls[other(m)] # <<>>
    /\ calls[m][1].input \in {<<"A", "1">>, <<"1", "A">>}
    /\ calls[m][1].output # calls[m][1].input
    /\ calls[other(m)][1].input = calls[m][1].output
    /\ calls[other(m)][1].output = calls[m][1].input

\* the rotor positions of a process call after its first i emitted characters
posAfter(r, i) == IF i = 0 THEN r.before ELSE r.trace[i]

\* C4: every non-letter of the input is emitted unchanged at the same index
\* and the rotor positions are the same before and after that character.
C4_Passthrough ==
  \A r \in AllCalls :
    r.op = "process" =>
      \A i \in 1..Len(r.input) :
        ~IsLetter(r.input[i]) =>
          /\ i <= Len(r.output)
          /\ r.output[i] = r.input[i]
          /\ posAfter(r, i) = posAfter(r, i - 1)

\* C6: process(s) on a fresh machine equals process(s.toUpperCase()) on
\* another fresh machine of the same configuration, and no output holds a
\* lowercase letter.
C6_CaseFolding ==
  /\ \A m \in Machines :
       (/\ calls[m] # <<>>
        /\ calls[other(m)] # <<>>
        /\ calls[other(m)][1].input = toUpperCase(calls[m][1].input))
         => calls[other(m)][1].output = calls[m][1].output
  /\ \A r \in AllCalls :
       \A i \in 1..Len(r.output) : r.output[i] \notin LowerLetters \cup {"ß"}

\* C6 witness: a text with a lowercase letter went through one machine and
\* its uppercased form, a different text, through the other
C6_Witness ==
  \E m \in Machines :
    /\ calls[m] # <<>>
    /\ calls[other(m)] # <<>>
    /\ \E i \in 1..Len(calls[m][1].input) : calls[m][1].input[i] = "h"
    /\ calls[other(m)][1].input = toUpperCase(calls[m][1].input)
    /\ calls[other(m)][1].input # calls[m][1].input
    /\ calls[other(m)][1].output = calls[m][1].output

\* the inputs given to machine m so far, and what it returned
Inputs(m) == [k \in 1..Len(calls[m]) |-> calls[m][k].input]

Outputs(m) == [k \in 1..Len(calls[m]) |-> calls[m][k].output]

C8_Swap ==
  \A r \in AllCalls :
    r.op = "plugboardSwap" =>
      LET c == r.input[1]
          out == r.output[1]
          pairs == enigma[1].plugboardPairs
      IN  \/ \E i \in 1..Len(pairs) : pairs[i][1] = c /\ out = pairs[i][2]
          \/ \E i \in 1..Len(pairs) : pairs[i][2] = c /\ out = pairs[i][1]
          \/ /\ \A i \in 1..Len(pairs) : pairs[i][1] # c /\ pairs[i][2] # c
             /\ out = c

\* C8 witness: with the pairs A-B and C-D, the second member of the second
\* pair was swapped to the first
C8_Witness ==
  /\ enigma[1].plugboardPairs = <<<<"A", "B">>, <<"C", "D">>>>
  /\ calls[1] # <<>>
  /\ calls[1][1].op = "plugboardSwap"
  /\ calls[1][1].input = <<"D">>
  /\ calls[1][1].output = <<"C">>

\* C9: swapping the letter plugboardSwap returned, with the same valid pair
\* list, gives the original letter.
C9_PlugboardInvolution ==
  (Len(calls[1]) = 2 /\ calls[1][2].op = "plugboardSwap")
    => calls[1][2].output = calls[1][1].input

\* C9 witness: a letter of the second of two pairs was swapped and swapped back
C9_Witness ==
  /\ Len(enigma[1].plugboardPairs) = 2
  /\ Len(calls[1]) = 2
  /\ calls[1][2].op = "plugboardSwap"
  /\ calls[1][1].input[1] = enigma[1].plugboardPairs[2][2]
  /\ calls[1][1].output # calls[1][1].input
  /\ calls[1][2].output = calls[1][1].input

\* C10: process returns as many characters as it was given.
C10_LengthPreserved ==
  \A r \in AllCalls : r.op = "process" => Len(r.output) = Len(r.input)

\* C11: process never fails: the rotor positions stay in 0..25, every
\* character given to process yields exactly one character, and that
\* character is a letter A-Z for a letter and the character itself for a
\* non-letter.
C11_NoRuntimeFailure ==
  /\ \A m \in Machines : \A i \in 1..3 :
       enigma[m].rotors[i].position \in 0..25
  /\ \A r \in AllCalls :
       r.op = "process" =>
         /\ Len(r.output) = Len(r.input)
         /\ \A i \in 1..Len(r.input) :
              i <= Len(r.output) =>
                IF IsLetter(r.input[i]) THEN r.output[i] \in Letters
                ELSE r.output[i] = r.input[i]

\* what a fresh machine e returns for the keys typed on it alone, and the
\* machine it becomes
RECURSIVE replay(_, _)
replay(e, keys) ==
  IF keys = <<>> THEN [enigma |-> e, outputs |-> <<>>]
  ELSE LET r == encryptChar(e, Head(keys)[1])
           rest == replay(r.enigma, Tail(keys))
       IN  [enigma |-> rest.enigma, outputs |-> <<<<r.out>>>> \o rest.outputs]

\* C13: whatever was typed on the other machine in between, a machine is in
\* the state and has returned the letters that its own keys alone produce on
\* a fresh machine of the same configuration.
C13_Independence ==
  \A m \in Machines :
    \A r \in {replay(newEnigma(config), Inputs(m))} :
      /\ Outputs(m) = r.outputs
      /\ enigma[m] = r.enigma

\* C13 witness: three keys were typed on one machine and one on the other,
\* and the machines are at different positions
C13_Witness ==
  /\ Len(calls[1]) = 3
  /\ Len(calls[2]) = 1
  /\ positions(enigma[1]) # positions(enigma[2])
  /\ positions(enigma[2]) # config.rotorPositions

\* the four causes of a ConfigurationError
C12_Invalid(c) ==
  \/ \E i \in 1..3 : c.rotorIDs[i] < 0 \/ c.rotorIDs[i] > 2
  \/ \E i \in 1..3 : c.rotorPositions[i] < 0 \/ c.rotorPositions[i] > 25
  \/ \E i \in 1..3 : c.ringSettings[i] < 0 \/ c.ringSettings[i] > 25
  \/ \E x \in Letters :
       Cardinality({i \in 1..Len(c.plugboardPairs) :
                      x \in {c.plugboardPairs[i][1], c.plugboardPairs[i][2]}}) > 1
  \/ \E i \in 1..Len(c.plugboardPairs) :
       c.plugboardPairs[i][1] = c.plugboardPairs[i][2]

C14_PlugboardEffect ==
  (calls[1] # <<>> /\ calls[2] # <<>>)
    => calls[1][1].output # calls[2][1].output

\* C16: rotors 0,1,2 at positions 0,0,0 without plugboard pairs:
\* process("HELLO") with the ring settings 5,10,15 returns something else
\* than with the ring settings 0,0,0.
C16_Config ==
  [rotorIDs |-> <<0, 1, 2>>, rotorPositions |-> <<0, 0, 0>>,
   ringSettings |-> <<5, 10, 15>>, plugboardPairs |-> <<>>]

C16_RingSettings ==
  (config = C16_Config /\ calls[1] # <<>> /\ calls[2] # <<>>)
    => calls[1][1].output # calls[2][1].output

\* C16 witness: both machines of that configuration have processed HELLO and
\* returned five letters each
C16_Witness ==
  /\ config = C16_Config
  /\ calls[1] # <<>>
  /\ calls[2] # <<>>
  /\ calls[1][1].input = <<"H", "E", "L", "L", "O">>
  /\ calls[2][1].input = <<"H", "E", "L", "L", "O">>
  /\ Len(calls[1][1].output) = 5
  /\ calls[1][1].output # calls[2][1].output

C17_Straight(ship, shipLength, size) ==
  /\ Len(ship.locations) = shipLength
  /\ \E startRow \in 0..(size - 1) : \E startCol \in 0..(size - 1) :
       \/ /\ startCol + shipLength <= size
          /\ \A i \in 1..shipLength :
               ship.locations[i] = String(startRow) \o String(startCol + i - 1)
       \/ /\ startRow + shipLength <= size
          /\ \A i \in 1..shipLength :
               ship.locations[i] = String(startRow + i - 1) \o String(startCol)

\* C17: when placeShipsRandomly has returned true, on the board with or
\* without showShips, no cell is occupied by two ships and every ship lies on
\* shipLength consecutive cells of one row or one column inside the board.
C17_ShipsPlaced ==
  \A b \in Boards :
    (last.op = "placeShipsRandomly" /\ last.target = b /\ last.result = TRUE) =>
      /\ \A j, k \in 1..Len(game[b].ships) :
           j # k =>
             \A i \in 1..Len(game[b].ships[j].locations) :
               ~occupies(game[b].ships[k], game[b].ships[j].locations[i])
      /\ \A k \in 1..Len(game[b].ships) :
           C17_Straight(game[b].ships[k], last.args[2], game[b].size)

\* C19: processShot on a cell that was shot before returns hit false, sunk
\* false, alreadyGuessed true and leaves the grid, the guesses and the hits of
\* every ship as they were.
C19_AlreadyGuessed ==
  \A b \in Boards :
    (/\ last.op = "processShot"
     /\ last.target = b
     /\ coordinatesToString(last.args[1], last.args[2]) \in last.before[b].guesses)
      => /\ last.result = [hit |-> FALSE, sunk |-> FALSE, alreadyGuessed |-> TRUE]
         /\ game[b].grid = last.before[b].grid
         /\ game[b].guesses = last.before[b].guesses
         /\ \A k \in 1..Len(game[b].ships) :
              game[b].ships[k].hits = last.before[b].ships[k].hits
         /\ Len(game[b].ships) = Len(last.before[b].ships)

\* C19 witness: a cell of a ship that was hit before has been shot again
C19_Witness ==
  \E b \in Boards :
    /\ last.op = "processShot"
    /\ last.target = b
    /\ coordinatesToString(last.args[1], last.args[2]) \in last.before[b].guesses
    /\ game[b].grid[last.args[1]][last.args[2]] = SYMBOLS.HIT
    /\ last.result.alreadyGuessed

\* C18: a move makeMove returns was not returned since construction or reset
\* and lies inside the board, and makeMove throws only when every cell of the
\* board was returned.
C18_NoRepeatedMove ==
  last.op = "makeMove" =>
    IF last.thrown
      THEN \A row \in 0..(game.aiPlayer.boardSize - 1) :
             \A col \in 0..(game.aiPlayer.boardSize - 1) :
               [row |-> row, col |-> col] \in last.returnedBefore
      ELSE /\ last.result \notin last.returnedBefore
           /\ isValidCoordinate(last.result.row, last.result.col,
                                game.aiPlayer.boardSize)

\* C18 witness: a third move was returned, taken from the target queue
C18_Witness ==
  /\ last.op = "makeMove"
  /\ ~last.thrown
  /\ Cardinality(last.returnedBefore) >= 2
  /\ last.before.mode = AI_MODES.TARGET
  /\ Len(last.before.targetQueue) > 0
  /\ last.result = Head(last.before.targetQueue)

NoShips(g) == ~hasShipsRemaining(g.playerBoard) \/ ~hasShipsRemaining(g.opponentBoard)

\* C20: checkGameEnd sets gameState to game_over exactly when the player
\* board or the opponent board has no ships remaining and otherwise leaves
\* gameState as it was; no player or AI turn is taken once gameState is
\* game_over; and endGame declares the player the winner exactly when the
\* opponent board has no ships remaining.
C20_GameEnd ==
  /\ last.op = "checkGameEnd" =>
       IF NoShips(last.before)
         THEN game.gameState = GAME_STATES.GAME_OVER
         ELSE /\ game.gameState = last.before.gameState
              /\ game.gameState # GAME_STATES.GAME_OVER
  /\ last.op \in {"handlePlayerTurn", "handleAiTurn"} =>
       last.before.gameState # GAME_STATES.GAME_OVER
  /\ pc \in {"handlePlayerTurn", "handleAiTurn"} =>
       game.gameState # GAME_STATES.GAME_OVER
  /\ last.op = "endGame" =>
       /\ game.gameState = GAME_STATES.GAME_OVER
       /\ last.result.playerWon <=> ~hasShipsRemaining(game.opponentBoard)

\* C20 witness: the game has ended after the AI sank the player's last ship
C20_Witness ==
  /\ last.op = "endGame"
  /\ game.gameState = GAME_STATES.GAME_OVER
  /\ ~hasShipsRemaining(game.playerBoard)
  /\ ~last.result.playerWon

\* the errors of the result that report the key of the validated object as
\* an unknown property
C21_UnknownErrors(result, key) ==
  {i \in 1..Len(result.errors) :
     /\ result.errors[i].message = <<"Unknown property \"", key, "\"">>
     /\ result.errors[i].path = <<key>>}

\* C21: an ObjectValidator without allowUnknown rejects an object that has a
\* key its schema does not have, with one 'Unknown property' error for each
\* such key; with allowUnknown such keys are not reported and are copied
\* into the validated value.
C21_UnknownProperties ==
  (last.op = "validate" /\ last.value.type = "object") =>
    \A key \in ownKeys(last.value.v) \ ownKeys(last.before.schema) :
      IF ~last.before.allowUnknownKeys
        THEN /\ ~last.result.isValid
             /\ Cardinality(C21_UnknownErrors(last.result, key)) = 1
        ELSE /\ C21_UnknownErrors(last.result, key) = {}
             /\ last.result.value.type = "object"
             /\ key \in ownKeys(last.result.value.v)
             /\ getProperty(last.result.value.v, key)
                  = getProperty(last.value.v, key)

\* the machine of the configuration with its rotors at the positions p
C22_MachineAt(p) ==
  Enigma(config.rotorIDs, p, config.ringSettings, config.plugboardPairs)

\* swap, right.forward, middle.forward, left.forward, reflect, left.backward,
\* middle.backward, right.backward, swap
C22_Path(e, x) ==
  LET swapped == plugboardSwap(x, e.plugboardPairs)
      afterRight == forward(e.rotors[3], swapped)
      afterMiddle == forward(e.rotors[2], afterRight)
      afterLeft == forward(e.rotors[1], afterMiddle)
      reflected == reflect(afterLeft)
      backLeft == backward(e.rotors[1], reflected)
      backMiddle == backward(e.rotors[2], backLeft)
      backRight == backward(e.rotors[3], backMiddle)
  IN  plugboardSwap(backRight, e.plugboardPairs)

\* C22: encryptChar steps the rotors once and then encrypts: the positions
\* after the call are one stepRotors away from those before it, and the letter
\* returned is swap, right.forward, middle.forward, left.forward, reflect,
\* left.backward, middle.backward, right.backward, swap of the letter typed,
\* taken at the positions after the step.
C22_StepThenEncrypt ==
  \A r \in AllCalls :
    r.op = "encryptChar" =>
      /\ r.trace[1] = positions(stepRotors(C22_MachineAt(r.before)))
      /\ r.output = <<C22_Path(C22_MachineAt(r.trace[1]), r.input[1])>>

\* C22 witness: a plugged letter was typed and the letter returned is not the
\* one the path gives at the positions before the step
C22_Witness ==
  \E r \in AllCalls :
    /\ r.op = "encryptChar"
    /\ config.plugboardPairs # <<>>
    /\ plugboardSwap(r.input[1], config.plugboardPairs) # r.input[1]
    /\ r.output # <<C22_Path(C22_MachineAt(r.before), r.input[1])>>

\* C23: a keypress made with neither the middle nor the right rotor at its
\* notch advances the right rotor by one and leaves the middle and the left
\* rotor where they were.
C23_RightOnly ==
  \A r \in AllCalls :
    (/\ r.op = "encryptChar"
     /\ alphabet[r.before[2] + 1] # notchOf(2)
     /\ alphabet[r.before[3] + 1] # notchOf(3))
      => r.trace[1] = <<r.before[1], r.before[2], (r.before[3] + 1) % 26>>

\* C23 witness: one letter was encrypted from the positions 0,0,0 and left
\* the positions 0,0,1
C23_Witness ==
  /\ config.rotorPositions = <<0, 0, 0>>
  /\ Len(calls[1]) = 1
  /\ calls[1][1].op = "encryptChar"
  /\ alphabet[1] # notchOf(2)
  /\ alphabet[1] # notchOf(3)
  /\ calls[1][1].trace[1] = <<0, 0, 1>>
  /\ positions(enigma[1]) = <<0, 0, 1>>

\* C24: when keypress k is made with the right rotor at its notch and the
\* middle rotor one position before its own, the middle rotor advances on
\* keypress k, arriving at its notch, and again on keypress k+1, on which the
\* left rotor advances too: the middle rotor is at its notch for one keypress.
C24_TwoKeypresses ==
  \A m \in Machines :
    \A k \in 1..Len(calls[m]) :
      (/\ calls[m][k].op = "encryptChar"
       /\ alphabet[calls[m][k].before[3] + 1] = notchOf(3)
       /\ alphabet[((calls[m][k].before[2] + 1) % 26) + 1] = notchOf(2))
        => /\ calls[m][k].trace[1][2] = (calls[m][k].before[2] + 1) % 26
           /\ alphabet[calls[m][k].trace[1][2] + 1] = notchOf(2)
           /\ calls[m][k].trace[1][1] = calls[m][k].before[1]
           /\ k < Len(calls[m]) =>
                /\ calls[m][k + 1].before = calls[m][k].trace[1]
                /\ calls[m][k + 1].trace[1][2] = (calls[m][k].before[2] + 2) % 26
                /\ calls[m][k + 1].trace[1][1] = (calls[m][k].before[1] + 1) % 26
                /\ alphabet[calls[m][k + 1].trace[1][2] + 1] # notchOf(2)

\* C24 witness: two keypresses in a row on one machine, the first made with
\* the right rotor at its notch and the middle rotor one before its own, the
\* left rotor wrapping from 25 to 0 on the second
C24_Witness ==
  \E m \in Machines :
    /\ Len(calls[m]) >= 2
    /\ alphabet[calls[m][1].before[3] + 1] = notchOf(3)
    /\ alphabet[((calls[m][1].before[2] + 1) % 26) + 1] = notchOf(2)
    /\ calls[m][1].before[1] = 25
    /\ calls[m][2].trace[1][1] = 0

\* C25: a step takes a rotor from position p to (p + 1) mod 26, 25 to 0: on
\* every keypress the right rotor is stepped, each of the other rotors is
\* stepped or left alone, and every position before and after is in 0..25.
C25_StepMod26 ==
  /\ \A m \in Machines : \A i \in 1..3 : enigma[m].rotors[i].position \in 0..25
  /\ \A r \in AllCalls :
       r.op = "encryptChar" =>
         /\ \A i \in 1..3 :
              /\ r.before[i] \in 0..25
              /\ r.trace[1][i] \in 0..25
              /\ r.trace[1][i] \in {r.before[i], (r.before[i] + 1) % 26}
         /\ r.trace[1][3] = (r.before[3] + 1) % 26

\* C25 witness: a keypress has taken the right rotor from 25 to 0
C25_Witness ==
  \E r \in AllCalls :
    /\ r.op = "encryptChar"
    /\ r.before[3] = 25
    /\ r.trace[1][3] = 0

\* C26: a rotor is at its notch exactly when the letter of the alphabet at
\* its position is its notch letter, whatever its ring setting: a rotor with
\* notch Q is at its notch at position 16 and not at position 15.
C26_AtNotch ==
  \A r \in {enigma[1].rotors[1]} :
    /\ atNotch(r) <=> alphabet[r.position + 1] = r.notch
    /\ \A ringSetting \in 0..25 :
         atNotch([r EXCEPT !.ringSetting = ringSetting]) <=> atNotch(r)
    /\ (r.notch = "Q" /\ r.position = 16) => atNotch(r)
    /\ (r.notch = "Q" /\ r.position = 15) => ~atNotch(r)

\* C26 witness: the rotor with notch Q and ring setting 2 has been stepped to
\* position 16 and is at its notch
C26_Witness ==
  /\ enigma[1].rotors[1].notch = "Q"
  /\ enigma[1].rotors[1].ringSetting = 2
  /\ enigma[1].rotors[1].position = 16
  /\ atNotch(enigma[1].rotors[1])

\* the machine with its rotors turned back to the positions p
C27_TurnedBack(e, p) ==
  [e EXCEPT !.rotors = [i \in 1..3 |-> [e.rotors[i] EXCEPT !.position = p[i]]]]

RECURSIVE C28_Letters(_)
C28_Letters(text) ==
  IF text = <<>> THEN 0
  ELSE (IF Head(text) \in Letters THEN 1 ELSE 0) + C28_Letters(Tail(text))

\* C28: when process has consumed a text whose uppercased form holds n
\* letters, and any number of other characters, the right rotor is at
\* (its position before the call + n) mod 26.
C28_RightRotorCount ==
  \A m \in Machines :
    (Len(calls[m]) = 1 /\ calls[m][1].op = "process") =>
      enigma[m].rotors[3].position
        = (calls[m][1].before[3] + C28_Letters(toUpperCase(calls[m][1].input))) % 26

\* C28 witness: a text with a non-letter and a letter was processed from the
\* right rotor position 25 and has left the right rotor at 0
C28_Witness ==
  \E m \in Machines :
    /\ Len(calls[m]) = 1
    /\ calls[m][1].op = "process"
    /\ calls[m][1].input = <<"1", "h">>
    /\ calls[m][1].before[3] = 25
    /\ enigma[m].rotors[3].position = 0

\* the text HELLO
C29_Hello == <<"H", "E", "L", "L", "O">>

\* C29: no letter encrypts to itself. At every position the rotors are in,
\* encryptChar gives for each of the 26 letters a different letter, every
\* letter typed so far came back as another letter, and process("HELLO")
\* gives five letters that differ from HELLO at every index.
C29_NoLetterToItself ==
  \A m \in Machines :
    /\ \A x \in Letters :
         LET out == encryptChar(enigma[m], x).out
         IN  out \in Letters /\ out # x
    /\ \A k \in 1..Len(calls[m]) :
         calls[m][k].op = "encryptChar" => calls[m][k].output # calls[m][k].input
    /\ LET r == process(enigma[m], C29_Hello)
       IN  /\ Len(r.out) = 5
           /\ \A i \in 1..5 : r.out[i] \in Letters /\ r.out[i] # C29_Hello[i]

\* C29 witness: a machine with ring settings and plugboard pairs was given the
\* plugged letter A twice, from rotor positions that differ, and returned
\* another letter each time
C29_Witness ==
  \E m \in Machines :
    /\ Len(calls[m]) >= 2
    /\ config.ringSettings # <<0, 0, 0>>
    /\ config.plugboardPairs # <<>>
    /\ \A k \in 1..2 :
         /\ calls[m][k].op = "encryptChar"
         /\ calls[m][k].input = <<"A">>
         /\ calls[m][k].output # <<"A">>
    /\ calls[m][1].before # calls[m][2].before

\* the machine with rotors ids at the positions p, rings at 0, no plugboard
C30_MachineAt(ids, p) == Enigma(ids, p, <<0, 0, 0>>, <<>>)

\* the rotor turned back by one position
C30_Back(r) == [r EXCEPT !.position = (r.position + 25) % 26]

\* the middle rotor is at its notch and the right rotor is not one past its own
C30_NeverResult(e) ==
  atNotch(e.rotors[2]) /\ ~atNotch(C30_Back(e.rotors[3]))

\* the middle and the right rotor are both one past their notches: the result
\* of a keypress on a triple that is itself never a result
C30_OnlyFirst(e) ==
  atNotch(C30_Back(e.rotors[2])) /\ atNotch(C30_Back(e.rotors[3]))

\* the triples the stepping stays in
C30_OnCycle(e) == ~C30_NeverResult(e) /\ ~C30_OnlyFirst(e)

\* for each rotor order there are exactly Period triples to stay in, and the
\* triples that a keypress results in are not all 26 x 26 x 26
C30_Counts ==
  \A ids \in RotorIDChoices :
    /\ Cardinality({p \in Triples : C30_OnCycle(C30_MachineAt(ids, p))}) = Period
    /\ Cardinality({positions(stepRotors(C30_MachineAt(ids, p))) : p \in Triples})
         < 26 * 26 * 26
    /\ \A p \in Triples :
         ~C30_NeverResult(stepRotors(C30_MachineAt(ids, p)))

\* the positions after n keypresses on the machine as built
RECURSIVE C30_After(_)
C30_After(n) ==
  IF n = 0 THEN newEnigma(config) ELSE stepRotors(C30_After(n - 1))

\* C30: a keypress never results in a triple with the middle rotor at its notch
\* and the right rotor not one past its own, so not all 17,576 triples are
\* results of keypresses. From any start, the triples after two keypresses
\* and more are among Period = 16,900 triples, and the triple after two
\* keypresses comes back after Period further keypresses and not earlier:
\* the Period triples are one cycle, stepped through with period 16,900.
C30_SteppingPeriod ==
  /\ C30_Counts
  /\ keysPressed >= 1 => ~C30_NeverResult(enigma[1])
  /\ keysPressed >= 2 => C30_OnCycle(enigma[1])
  /\ keysPressed \in 3..(Period + 1) =>
       positions(enigma[1]) # positions(C30_After(2))
  /\ keysPressed = Period + 2 =>
       positions(enigma[1]) = positions(C30_After(2))

\* C30 witness: from a start that is never the result of a keypress, the triple
\* after the first keypress is left for good, and Period keypresses after the
\* second one the rotors are back where the second keypress put them
C30_Witness ==
  /\ C30_NeverResult(newEnigma(config))
  /\ ~C30_OnCycle(C30_After(1))
  /\ keysPressed = Period + 2
  /\ positions(enigma[1]) = positions(C30_After(2))

\* the ships of the board that occupy the location
C31_Occupying(board, location) ==
  {k \in 1..Len(board.ships) : occupies(board.ships[k], location)}

\* the location is the one cell of the ship that was not hit
C31_LastCell(ship, location) ==
  {ship.locations[i] : i \in 1..Len(ship.locations)} \ ship.hits = {location}

\* C31: processShot on a cell that was not shot before puts the cell into
\* guesses; it returns hit true and marks the cell HIT exactly when a ship
\* occupies the cell, and otherwise returns hit false and marks the cell MISS;
\* sunk is true exactly when the shot hit the last cell of the hit ship that
\* was not hit. After any shots a cell is in guesses exactly when its symbol
\* is HIT or MISS.
C31_ProcessShot ==
  \A b \in Boards :
    /\ (/\ last.op = "processShot"
        /\ last.target = b
        /\ coordinatesToString(last.args[1], last.args[2]) \notin last.before[b].guesses)
         => LET location == coordinatesToString(last.args[1], last.args[2])
                occupying == C31_Occupying(last.before[b], location)
                symbol == game[b].grid[last.args[1]][last.args[2]]
            IN  /\ game[b].guesses = last.before[b].guesses \cup {location}
                /\ ~last.result.alreadyGuessed
                /\ last.result.hit <=> occupying # {}
                /\ symbol = IF occupying # {} THEN SYMBOLS.HIT ELSE SYMBOLS.MISS
                /\ last.result.sunk <=>
                     \E k \in occupying :
                       /\ location \in game[b].ships[k].hits
                       /\ C31_LastCell(last.before[b].ships[k], location)
    /\ \A row \in 0..(game[b].size - 1) : \A col \in 0..(game[b].size - 1) :
         coordinatesToString(row, col) \in game[b].guesses
           <=> game[b].grid[row][col] \in {SYMBOLS.HIT, SYMBOLS.MISS}

\* C31 witness: after a miss, a shot has hit the last cell of a ship and sunk it
C31_Witness ==
  \E b \in Boards :
    /\ last.op = "processShot"
    /\ last.target = b
    /\ coordinatesToString(last.args[1], last.args[2]) \notin last.before[b].guesses
    /\ last.result.hit
    /\ last.result.sunk
    /\ \E row \in 0..(game[b].size - 1) : \E col \in 0..(game[b].size - 1) :
         /\ game[b].grid[row][col] = SYMBOLS.MISS
         /\ coordinatesToString(row, col) \in game[b].guesses

\* the cells of a queue
C32_Cells(queue) == {queue[i] : i \in 1..Len(queue)}

\* the four cells next to (row, col), on the board or not
C32_Adjacent(row, col) ==
  {[row |-> row - 1, col |-> col], [row |-> row + 1, col |-> col],
   [row |-> row, col |-> col - 1], [row |-> row, col |-> col + 1]}

\* the adjacent cells processResult has to queue: inside the board, not
\* guessed and not in the queue
C32_ToQueue(ai, row, col) ==
  {c \in C32_Adjacent(row, col) :
     /\ isValidCoordinate(c.row, c.col, ai.boardSize)
     /\ coordinatesToString(c.row, c.col) \notin ai.guesses
     /\ c \notin C32_Cells(ai.targetQueue)}

\* C32: processResult(row, col, true, false) sets the mode to target and
\* appends to targetQueue exactly the cells next to (row, col) that are inside
\* the board, were not guessed and were not in the queue, each once; whatever
\* was called, no cell is twice in the queue and every cell of it is inside
\* the board.
C32_AdjacentTargets ==
  /\ (last.op = "processResult" /\ last.args.hit /\ ~last.args.sunk) =>
       LET before == last.before
           queue == game.aiPlayer.targetQueue
           toQueue == C32_ToQueue(before, last.result.row, last.result.col)
       IN  /\ game.aiPlayer.mode = AI_MODES.TARGET
           /\ Len(queue) = Len(before.targetQueue) + Cardinality(toQueue)
           /\ SubSeq(queue, 1, Len(before.targetQueue)) = before.targetQueue
           /\ {queue[i] : i \in (Len(before.targetQueue) + 1)..Len(queue)} = toQueue
  /\ \A i, j \in 1..Len(game.aiPlayer.targetQueue) :
       i # j => game.aiPlayer.targetQueue[i] # game.aiPlayer.targetQueue[j]
  /\ \A i \in 1..Len(game.aiPlayer.targetQueue) :
       isValidCoordinate(game.aiPlayer.targetQueue[i].row,
                         game.aiPlayer.targetQueue[i].col,
                         game.aiPlayer.boardSize)

\* C32 witness: a hit was reported on a cell with a neighbour that was guessed,
\* a neighbour that was queued and a neighbour that was neither, and the queue
\* has grown
C32_Witness ==
  /\ last.op = "processResult"
  /\ last.args.hit
  /\ ~last.args.sunk
  /\ \E c \in C32_Adjacent(last.result.row, last.result.col) :
       coordinatesToString(c.row, c.col) \in last.before.guesses
  /\ \E c \in C32_Adjacent(last.result.row, last.result.col) :
       c \in C32_Cells(last.before.targetQueue)
  /\ C32_ToQueue(last.before, last.result.row, last.result.col) # {}
  /\ Len(game.aiPlayer.targetQueue) > Len(last.before.targetQueue)

\* C33: processResult with hit and sunk sets the mode to hunt and empties
\* targetQueue; with no hit, whatever sunk is, it leaves mode and targetQueue
\* as they were; it never changes guesses or the board size.
C33_OnlyOnHits ==
  last.op = "processResult" =>
    /\ game.aiPlayer.guesses = last.before.guesses
    /\ game.aiPlayer.boardSize = last.before.boardSize
    /\ (last.args.hit /\ last.args.sunk) =>
         /\ game.aiPlayer.mode = AI_MODES.HUNT
         /\ game.aiPlayer.targetQueue = <<>>
    /\ ~last.args.hit =>
         /\ game.aiPlayer.mode = last.before.mode
         /\ game.aiPlayer.targetQueue = last.before.targetQueue

\* C33 witness: a miss was reported to a player in target mode with queued
\* targets and moves made, and the player still has its mode and its queue
C33_Witness ==
  /\ last.op = "processResult"
  /\ ~last.args.hit
  /\ last.before.mode = AI_MODES.TARGET
  /\ Len(last.before.targetQueue) >= 2
  /\ last.before.guesses # {}
  /\ game.aiPlayer.mode = AI_MODES.TARGET
  /\ game.aiPlayer.targetQueue = last.before.targetQueue

\* the cell of the player's board was not guessed
C34_Fresh(ai, c) == coordinatesToString(c.row, c.col) \notin ai.guesses

\* the places of the queue that hold a cell that was not guessed
C34_FreshTargets(ai) ==
  {i \in 1..Len(ai.targetQueue) : C34_Fresh(ai, ai.targetQueue[i])}

\* makeMove has returned the move and put it into guesses
C34_Returned(before) ==
  /\ ~last.thrown
  /\ game.aiPlayer.guesses =
       before.guesses \cup {coordinatesToString(last.result.row, last.result.col)}

\* makeMove in target mode with a target that was not guessed: the earliest
\* such target is returned, and it and the targets before it leave the queue
C34_Fifo ==
  (/\ last.op = "makeMove"
   /\ last.before.mode = AI_MODES.TARGET
   /\ C34_FreshTargets(last.before) # {}) =>
     LET first == CHOOSE i \in C34_FreshTargets(last.before) :
                    \A j \in C34_FreshTargets(last.before) : i <= j
         queue == last.before.targetQueue
     IN  /\ C34_Returned(last.before)
         /\ last.result = queue[first]
         /\ game.aiPlayer.targetQueue = SubSeq(queue, first + 1, Len(queue))
         /\ game.aiPlayer.mode = AI_MODES.TARGET

\* every move returned is in guesses
C34_Remembered ==
  (last.op = "makeMove" /\ ~last.thrown) =>
    coordinatesToString(last.result.row, last.result.col) \in game.aiPlayer.guesses

\* C34 as stated: in target mode the earliest queued target that was not
\* guessed is returned and leaves the queue with the guessed targets before
\* it; with a queue that is empty or all guessed the mode becomes hunt and a
\* cell that was not guessed is returned; every returned move is in guesses.
C34_TargetedMove ==
  /\ C34_Fifo
  /\ C34_Remembered
  /\ (/\ last.op = "makeMove"
      /\ last.before.mode = AI_MODES.TARGET
      /\ C34_FreshTargets(last.before) = {}) =>
        /\ game.aiPlayer.mode = AI_MODES.HUNT
        /\ C34_Returned(last.before)
        /\ C34_Fresh(last.before, last.result)
        /\ isValidCoordinate(last.result.row, last.result.col,
                             game.aiPlayer.boardSize)

\* C34 amended: as stated, but with a queue that is empty or all guessed a
\* cell that was not guessed is returned when the board has one; when every
\* cell of the board was guessed makeMove throws, the mode is hunt, the queue
\* is empty and guesses is as it was.
C34_TargetedMoveOrThrow ==
  /\ C34_Fifo
  /\ C34_Remembered
  /\ (/\ last.op = "makeMove"
      /\ last.before.mode = AI_MODES.TARGET
      /\ C34_FreshTargets(last.before) = {}) =>
        /\ game.aiPlayer.mode = AI_MODES.HUNT
        /\ game.aiPlayer.targetQueue = <<>>
        /\ IF availableMoves(last.before) # {}
             THEN /\ C34_Returned(last.before)
                  /\ C34_Fresh(last.before, last.result)
                  /\ isValidCoordinate(last.result.row, last.result.col,
                                       game.aiPlayer.boardSize)
             ELSE /\ last.thrown
                  /\ game.aiPlayer.guesses = last.before.guesses

\* C34 witness: the first target of the queue was guessed and the second was
\* not; makeMove has returned the second and taken both from the queue
C34_Witness ==
  /\ last.op = "makeMove"
  /\ last.before.mode = AI_MODES.TARGET
  /\ Len(last.before.targetQueue) >= 2
  /\ ~C34_Fresh(last.before, last.before.targetQueue[1])
  /\ C34_Fresh(last.before, last.before.targetQueue[2])
  /\ last.result = last.before.targetQueue[2]
  /\ Len(game.aiPlayer.targetQueue) = Len(last.before.targetQueue) - 2

\* the set of the locations of a ship
C35_Locations(ship) == {ship.locations[i] : i \in 1..Len(ship.locations)}

\* C35: hit returns true and records the location exactly when the ship
\* occupies the location and it was not hit before; otherwise it returns
\* false and leaves hits as they were. The hits of a ship are always among
\* its locations, and a ship the board has placed is sunk exactly when every
\* one of its locations was hit.
C35_ShipHit ==
  \A b \in Boards :
    /\ (last.op = "hit" /\ last.target = b) =>
         LET before == last.before[b].ships[last.args[1]]
             ship == game[b].ships[last.args[1]]
             location == last.args[2]
         IN  /\ last.result <=>
                  (location \in C35_Locations(before) /\ location \notin before.hits)
             /\ ship.hits = IF last.result THEN before.hits \cup {location}
                                           ELSE before.hits
             /\ ship.locations = before.locations
             /\ ship.length = before.length
    /\ \A k \in 1..Len(game[b].ships) :
         /\ game[b].ships[k].hits \subseteq C35_Locations(game[b].ships[k])
         /\ isSunk(game[b].ships[k])
              <=> C35_Locations(game[b].ships[k]) \subseteq game[b].ships[k].hits

\* C35 witness: a ship with every location hit, and so sunk, was hit again at
\* one of its locations and returned false
C35_Witness ==
  \E b \in Boards :
    /\ last.op = "hit"
    /\ last.target = b
    /\ ~last.result
    /\ last.args[2] \in last.before[b].ships[last.args[1]].hits
    /\ isSunk(game[b].ships[last.args[1]])
    /\ Len(game[b].ships) = 2
    /\ ~isSunk(game[b].ships[3 - last.args[1]])

\* the line is two digits and nothing else
C36_TwoDigits(str) == Len(str) = 2 /\ isDigit(str[1]) /\ isDigit(str[2])

\* the line is empty, is not two digits, or names a cell of the board that was
\* shot before
C36_Rejected(str, board) ==
  \/ Len(str) = 0
  \/ ~C36_TwoDigits(str)
  \/ /\ C36_TwoDigits(str)
     /\ str \in board.guesses

\* the turn of the player has not ended: the game and its boards and AI player
\* are as they were, it is the player's turn and the player is asked again
C36_TurnGoesOn ==
  /\ game = last.before
  /\ game.gameState = GAME_STATES.PLAYER_TURN
  /\ ~last.result.validMove
  /\ pc = "handlePlayerTurn"

\* C36 as stated: an input that is empty, is not exactly two digits or names
\* a cell shot before does not end the turn of the player.
C36_InvalidInput ==
  (/\ last.op = "handlePlayerTurn"
   /\ C36_Rejected(last.result.input, last.before.opponentBoard))
     => C36_TurnGoesOn

\* C36 amended: an input that, with the spaces around it removed, is empty, is
\* not exactly two digits or names a cell shot before does not end the turn
\* of the player.
C36_InvalidTrimmedInput ==
  (/\ last.op = "handlePlayerTurn"
   /\ C36_Rejected(trim(last.result.input), last.before.opponentBoard))
     => C36_TurnGoesOn

\* C36 witness: the player has named a cell that was hit before, after the AI
\* has moved, and is asked again
C36_Witness ==
  /\ last.op = "handlePlayerTurn"
  /\ C36_TwoDigits(last.result.input)
  /\ last.result.input \in last.before.opponentBoard.guesses
  /\ last.before.aiPlayer.guesses # {}
  /\ C36_TurnGoesOn

\* every cell of the board was shot
C37_AllShot(board) ==
  \A row \in 0..(board.size - 1) : \A col \in 0..(board.size - 1) :
    coordinatesToString(row, col) \in board.guesses

\* C37: on the opponent board initialize has placed the ships on, once every
\* cell of the board was shot no ship remains.
C37_AllShipsSunk ==
  (/\ pc \notin {"startGame", "failed"}
   /\ C37_AllShot(game.opponentBoard))
     => ~hasShipsRemaining(game.opponentBoard)

\* C38: the loops are bounded. Every pass of the loop of placeShipsRandomly
\* and every draw of getHuntMove that falls on a guessed cell counts one
\* attempt, no more than maxAttempts = 1000 attempts are counted, and inside
\* either loop a next step can always be taken. placeShipsRandomly returns
\* true exactly when numShips ships were placed; getHuntMove scans the board
\* only after 1000 attempts and then returns or throws at once.
C38_LoopsBounded ==
  /\ last.attempts \in 0..maxAttempts
  /\ last.op = "attempt" => last.attempts = last.attemptsBefore + 1
  /\ pc \in {"placeShipsRandomly", "getHuntMove"} => ENABLED NextLoops
  /\ pc \in {"returned", "thrown"} => ~ENABLED NextLoops
  /\ (pc = "returned" /\ gameConfig # <<>>) =>
       /\ last.placedShips = Len(game[gameConfig.target].ships)
       /\ last.result <=> Len(game[gameConfig.target].ships) = gameConfig.numShips
       /\ last.attempts >= last.placedShips
  /\ last.op = "scan" =>
       /\ last.attempts = maxAttempts
       /\ pc \in {"returned", "thrown"}

\* C38 witness: placeShipsRandomly has given up after 1000 attempts with one
\* ship of two placed and has returned false
C38_Witness ==
  /\ pc = "returned"
  /\ gameConfig # <<>>
  /\ last.attempts = maxAttempts
  /\ last.placedShips = 1
  /\ gameConfig.numShips = 2
  /\ last.result = FALSE

\* the constraints of the validator that return false or throw for the value,
\* in the order they were added
C39_Failing(v, value) ==
  SelectSeq(v.constraints, LAMBDA c : constraintValidate(c, value) # "true")

\* the message of the error for a constraint that returned false or threw
C39_Message(constraint, value) ==
  IF constraintValidate(constraint, value) = "false"
    THEN constraint.message
    ELSE <<"Constraint error: ", constraintValidate(constraint, value)>>

\* C39: when validate comes to the type check and the check fails, the result
\* is invalid and holds the type error alone, whatever the constraints are
\* and though one of them would throw; when the check passes, errors holds one
\* entry for each constraint that returned false or threw, in the order the
\* constraints were added, and isValid is true exactly when errors is empty.
C39_Validate ==
  (/\ last.op = "validate"
   /\ ~(last.value.type \in {"undefined", "null"} /\ last.before.isOptional)) =>
     LET v == last.before
         value == last.value
         result == last.result
     IN  /\ validator = v
         /\ result.isValid <=> result.errors = <<>>
         /\ IF typeof(value) # v.kind
              THEN /\ ~result.isValid
                   /\ Len(result.errors) = 1
                   /\ result.errors[1].message
                        = <<"Expected ", v.kind, " but got ", typeof(value)>>
              ELSE /\ Len(result.errors) = Len(C39_Failing(v, value))
                   /\ \A k \in 1..Len(result.errors) :
                        /\ result.errors[k].message
                             = C39_Message(C39_Failing(v, value)[k], value)
                        /\ result.errors[k].value = value
                        /\ result.errors[k].path = <<>>

\* C39 witness: of three constraints the first returned false, the second
\* threw and the third held, and the result has the two errors in that order
C39_Witness ==
  /\ last.op = "validate"
  /\ typeof(last.value) = last.before.kind
  /\ Len(last.before.constraints) = 3
  /\ constraintValidate(last.before.constraints[1], last.value) = "false"
  /\ last.before.constraints[2] = failingConstraint
  /\ constraintValidate(last.before.constraints[3], last.value) = "true"
  /\ Len(last.result.errors) = 2
  /\ last.result.errors[1].message = last.before.constraints[1].message
  /\ last.result.errors[2].message = <<"Constraint error: ", "Constraint failed">>
  /\ ~last.result.isValid

====
